---------------------------- MODULE Spec2Model ----------------------------
(***************************************************************************)
(* A model of ResponseCache (src/utils/cache.py): the two-tier response    *)
(* cache of the assistant.  Every coroutine is cut at its awaits: one      *)
(* action is the code that runs between two suspension points on the       *)
(* single event loop.  Dictionaries are sequences of records so that the   *)
(* insertion order Python keeps (and the stable sorts rely on) is kept.    *)
(***************************************************************************)
EXTENDS Integers, Sequences, FiniteSets, TLC

(***************************************************************************)
(* Bounds of the model and program constants.                              *)
(***************************************************************************)
\* client calls of one run
MaxCalls == 2
\* task slots of the event loop (client calls and background tasks)
MaxTasks == 2
\* environment events (a file corrupted or deleted behind the cache's back)
MaxTamper == 1
\* the byte budget max_size_bytes the configurations are built from
MaxSizeBytes == 76
\* hashlib.blake2b(..., digest_size=16)
DigestSize == 16

\* the slots there are; a configuration says how many of them a run may use
Tasks == 1..(MaxTasks + 1)

\* strings are sequences of characters
Models == {<<"a">>, <<"a", "b">>}
Prompts == {<<>>, <<"c">>, <<"b", "c">>}
R1 == <<"x">>
R2 == <<"y", "y">>
Responses == {<<>>, R1, R2}

(***************************************************************************)
(* Key derivation.  blake2b is taken as injective on the byte string it is *)
(* given, so the digest is represented by that byte string itself.         *)
(***************************************************************************)
Blake2b(bytes) == bytes

KeyConcat(model, prompt) == model \o prompt

GetCacheKey(model, prompt) == Blake2b(KeyConcat(model, prompt))

Keys == {GetCacheKey(m, p) : m \in Models, p \in Prompts}

(***************************************************************************)
(* CacheItem.size_estimate: sys.getsizeof of key, model, response and      *)
(* metadata.  getsizeof of a string grows by one per character over a      *)
(* fixed header (taken as 1); the key is a hex digest of fixed length; the *)
(* metadata dictionary always has the same two entries.                    *)
(***************************************************************************)
GetSizeOf(s) == Len(s) + 1

SizeEstimate(model, response) ==
    (2 * DigestSize + 1) + GetSizeOf(model) + GetSizeOf(response) + 1

(***************************************************************************)
(* Dictionaries with insertion order: sequences of records with a key.     *)
(***************************************************************************)
Has(d, k) == \E i \in 1..Len(d) : d[i].key = k

Pos(d, k) == CHOOSE i \in 1..Len(d) : d[i].key = k

Lookup(d, k) == d[Pos(d, k)]

\* d[k] = e : an existing key keeps its place, a new one goes last
Put(d, e) == IF Has(d, e.key) THEN [d EXCEPT ![Pos(d, e.key)] = e] ELSE Append(d, e)

Pop(d, k) == SelectSeq(d, LAMBDA e : e.key # k)

PopAll(d, ks) == SelectSeq(d, LAMBDA e : e.key \notin ks)

KeysOf(d) == {d[i].key : i \in 1..Len(d)}

RECURSIVE SumSizes(_)
SumSizes(d) == IF d = <<>> THEN 0 ELSE Head(d).size_bytes + SumSizes(Tail(d))

\* list.sort(key=...) / sorted(..., key=...): stable, ascending
SortedBy(d, rank) ==
    LET place(i) == Cardinality({j \in 1..Len(d) :
                        \/ rank[j] < rank[i]
                        \/ rank[j] = rank[i] /\ j <= i})
    IN  [n \in 1..Len(d) |-> d[CHOOSE i \in 1..Len(d) : place(i) = n]]

\* the last n elements of a sequence
LastN(d, n) == IF Len(d) <= n THEN d ELSE SubSeq(d, Len(d) - n + 1, Len(d))

(***************************************************************************)
(* State.                                                                  *)
(***************************************************************************)
VARIABLES
    cfg,                \* constructor arguments of ResponseCache
    memory_cache,       \* key -> CacheItem
    cache_index,        \* key -> index entry
    current_size_bytes, \* the running total
    last_cleanup,       \* time of the last cleanup pass
    lock,               \* asyncio.Lock: the holder first, then its FIFO waiters
    files,              \* the per-key files of the cache directory
    counters,           \* perf_tracker.counters
    now,                \* time.time()
    task,               \* the coroutines of the event loop, one per slot
    pending_cleanup,    \* tasks created by store and not yet started
    pending_save,       \* persist tasks created by get and not yet started
    index_file,         \* cache_index.json
    temp_file,          \* cache_index.tmp
    ncalls,             \* client calls made
    ntamper,            \* environment events so far
    dirty,              \* a foreign step happened since the last call or return
    hist,               \* the returned client calls, oldest first
    registry            \* resource_registry, the ResourceRegistry of the process

vars == <<cfg, memory_cache, cache_index, current_size_bytes, last_cleanup, lock,
          files, counters, now, task, pending_cleanup, pending_save, index_file,
          temp_file, ncalls, ntamper, dirty, hist, registry>>

None == [some |-> FALSE, val |-> <<>>]

(***************************************************************************)
(* ResourceRegistry (src/utils/resource_registry.py): the resources by     *)
(* name, in the order they were registered, each with what its close       *)
(* method does; the asyncio.Lock as the frames that hold or await it (the  *)
(* holder first); the calls in flight, one per task; how often each close  *)
(* method was invoked; the calls that returned.                            *)
(***************************************************************************)
Names == {"db", "http"}

\* close_method: there is none, a function that returns, a function that raises,
\* a coroutine function that suspends once and returns
Closers == {"none", "sync", "raises", "async"}

IdleCall == [pc |-> "idle", op |-> "none", id |-> 0, name |-> "", closer |-> "none",
             waiting |-> "none", names |-> <<>>, total_count |-> 0,
             success_count |-> 0, errors |-> <<>>]

\* ResourceRegistry.__init__
NewRegistry ==
    [resources |-> <<>>, lock |-> <<>>,
     calls |-> [t \in Tasks |-> IdleCall],
     closed |-> [n \in Names |-> 0],
     ncalls |-> 0, log |-> <<>>]
\* an exception that reaches the caller
Raised == [some |-> FALSE, val |-> <<"raised">>]
\* the coroutine was cancelled: CancelledError reaches whoever awaits it
Cancelled == [some |-> FALSE, val |-> <<"cancelled">>]
Some(v) == [some |-> TRUE, val |-> v]

NoFile == [st |-> "none", response |-> <<>>]
Truncated == [st |-> "empty", response |-> <<>>]
Garbage == [st |-> "garbage", response |-> <<>>]
Written(response) == [st |-> "ok", response |-> response]

\* the index file and its temporary file: absent, just opened for writing, or
\* holding the serialization of an index
NoDoc == [st |-> "none", doc |-> <<>>]
EmptyDoc == [st |-> "empty", doc |-> <<>>]
Document(index) == [st |-> "ok", doc |-> index]

\* what a call saw when it was made, kept for the record of the call
Snapshot(s, k) ==
    [size |-> s.current_size_bytes,
     had |-> IF Has(s.cache_index, k) THEN Lookup(s.cache_index, k).size_bytes ELSE 0,
     disk_items |-> Len(s.cache_index),
     in_index |-> Has(s.cache_index, k),
     in_memory |-> Has(s.memory_cache, k),
     file |-> IF k \in Keys THEN s.files[k] ELSE NoFile,
     files |-> s.files,
     lock |-> s.lock,
     now |-> s.now,
     last_cleanup |-> s.last_cleanup,
     index_file |-> s.index_file,
     created |-> IF Has(s.cache_index, k) THEN Lookup(s.cache_index, k).created ELSE -1,
     keys |-> KeysOf(s.cache_index),
     index |-> s.cache_index,
     memory |-> s.memory_cache,
     memory_keys |-> KeysOf(s.memory_cache),
     index_sum |-> SumSizes(s.cache_index),
     hits |-> s.counters.cache_hits,
     misses |-> s.counters.cache_misses,
     stores |-> s.counters.cache_stores]

NoSnapshot ==
    [size |-> 0, had |-> 0, disk_items |-> 0, in_index |-> FALSE, in_memory |-> FALSE,
     file |-> NoFile, files |-> [k \in Keys |-> NoFile], lock |-> <<>>,
     now |-> 0, last_cleanup |-> 0, index_file |-> NoDoc,
     created |-> -1, keys |-> {}, index |-> <<>>, memory |-> <<>>,
     memory_keys |-> {}, index_sum |-> 0,
     hits |-> 0, misses |-> 0, stores |-> 0]

\* a quotient a / b of naturals, b > 0, as the fraction in lowest terms
RECURSIVE Gcd(_, _)
Gcd(a, b) == IF b = 0 THEN a ELSE Gcd(b, a % b)
Quotient(a, b) == <<a \div Gcd(a, b), b \div Gcd(a, b)>>

\* the dictionary get_stats returns, before any was asked for
NoStats ==
    [disk_items |-> 0, memory_items |-> 0, disk_size_bytes |-> 0,
     hits |-> 0, misses |-> 0, stores |-> 0, hit_rate |-> Quotient(0, 1)]

IdleTask == [pc |-> "idle", op |-> "none", bg |-> FALSE, m |-> <<>>, p |-> <<>>,
             r |-> <<>>, key |-> <<>>, older |-> -1, force |-> FALSE, fh |-> FALSE,
             t0 |-> 0, data |-> <<>>, gap |-> FALSE, pre |-> NoSnapshot,
             removed |-> 0, freed |-> 0, sv |-> "open", doc |-> <<>>, fd |-> "none",
             awaits |-> 0, locked |-> FALSE, err |-> FALSE, stats |-> NoStats,
             failed |-> {}, cancelled_at |-> "none"]

\* the state as one record, so that a handler is a function from state to state
State ==
    [cfg |-> cfg, memory_cache |-> memory_cache, cache_index |-> cache_index,
     current_size_bytes |-> current_size_bytes, last_cleanup |-> last_cleanup,
     lock |-> lock, files |-> files, counters |-> counters, now |-> now,
     task |-> task, pending_cleanup |-> pending_cleanup,
     pending_save |-> pending_save, index_file |-> index_file,
     temp_file |-> temp_file, ncalls |-> ncalls,
     ntamper |-> ntamper, dirty |-> dirty, hist |-> hist]

Becomes(s) ==
    /\ cfg' = s.cfg
    /\ memory_cache' = s.memory_cache
    /\ cache_index' = s.cache_index
    /\ current_size_bytes' = s.current_size_bytes
    /\ last_cleanup' = s.last_cleanup
    /\ lock' = s.lock
    /\ files' = s.files
    /\ counters' = s.counters
    /\ now' = s.now
    /\ task' = s.task
    /\ pending_cleanup' = s.pending_cleanup
    /\ pending_save' = s.pending_save
    /\ index_file' = s.index_file
    /\ temp_file' = s.temp_file
    /\ ncalls' = s.ncalls
    /\ ntamper' = s.ntamper
    /\ dirty' = s.dirty
    /\ hist' = s.hist
    /\ registry' = registry

(***************************************************************************)
(* The event loop: calls, steps and returns of coroutines.                 *)
(***************************************************************************)
\* another client call is in flight
Overlap(s, t) == \E u \in Tasks \ {t} : s.task[u].pc # "idle" /\ ~s.task[u].bg

\* no client call is in flight
Quiet == \A u \in Tasks : task[u].pc = "idle" \/ task[u].bg

\* nothing at all is in flight
Quiescent ==
    (\A u \in Tasks : task[u].pc = "idle") /\ pending_cleanup = 0 /\ pending_save = 0

\* a client calls `op`: time has passed since the call before
Called(s, t, op, args) ==
    [s EXCEPT !.task[t] = [args EXCEPT !.op = op, !.gap = s.dirty \/ Overlap(s, t),
                                       !.pre = Snapshot(s, args.key)],
              !.ncalls = s.ncalls + 1,
              !.now = s.now + 1,
              !.dirty = Overlap(s, t)]

\* task t runs from one await to the next
Stepped(s, t) ==
    [s EXCEPT !.dirty = s.task[t].bg \/ s.dirty \/ Overlap(s, t),
              !.task[t].awaits = @ + 1]

Record(s, t, ret) ==
    [op |-> s.task[t].op, m |-> s.task[t].m, p |-> s.task[t].p, r |-> s.task[t].r,
     key |-> s.task[t].key, older |-> s.task[t].older, force |-> s.task[t].force,
     t0 |-> s.task[t].t0, ret |-> ret, removed |-> s.task[t].removed, freed |-> s.task[t].freed,
     gap |-> s.task[t].gap, solo |-> ~(s.dirty \/ Overlap(s, t)),
     awaits |-> s.task[t].awaits, locked |-> s.task[t].locked, err |-> s.task[t].err,
     stats |-> s.task[t].stats, failed |-> s.task[t].failed,
     cancelled_at |-> s.task[t].cancelled_at,
     pre |-> s.task[t].pre, post |-> Snapshot(s, s.task[t].key)]

\* the coroutine of task t returns `ret` (a background task returns to nobody)
Return(s, t, ret) ==
    IF s.task[t].bg
    THEN [s EXCEPT !.task[t] = IdleTask, !.dirty = TRUE]
    ELSE [s EXCEPT !.task[t] = IdleTask,
                   !.dirty = Overlap(s, t),
                   !.hist = LastN(Append(s.hist, Record(s, t, ret)), s.cfg.hist_len)]

(***************************************************************************)
(* asyncio.Lock: acquire() takes a free lock without suspending, and       *)
(* otherwise queues the caller; release() hands the lock to the first      *)
(* waiter.                                                                 *)
(***************************************************************************)
Free(s) == s.lock = <<>>
Acquire(s, t) == [s EXCEPT !.lock = Append(s.lock, t), !.task[t].locked = TRUE]
Release(s) == [s EXCEPT !.lock = Tail(s.lock)]
Holds(t) == lock # <<>> /\ Head(lock) = t

\* Path.unlink(): a task that has the file open keeps writing to the old inode
Unlink(s, k) ==
    [s EXCEPT !.files[k] = NoFile,
              !.task = [u \in Tasks |->
                          IF s.task[u].key = k /\ s.task[u].pc = "s_write"
                          THEN [s.task[u] EXCEPT !.fh = FALSE] ELSE s.task[u]]]

Count(s, c) == [s EXCEPT !.counters[c] = s.counters[c] + 1]

(***************************************************************************)
(* ResponseCache._save_cache_index: open the temporary file for writing,   *)
(* write the serialized index, close, rename over the index file.  Every   *)
(* failure is caught and logged.  A descriptor follows its inode: after a  *)
(* rename by another task it writes into the index file itself.            *)
(***************************************************************************)
\* the pcs at which a coroutine awaits _save_cache_index
SavePcs == {"s_save", "k_save", "c_save", "g_heal_save", "p_save", "x_save"}

\* the text goes to offset 0 of what the file holds; a longer text that was there
\* keeps its tail
OverlayDoc(old, doc) ==
    IF Len(old.doc) > Len(doc)
    THEN [st |-> "garbage", doc |-> doc \o SubSeq(old.doc, Len(doc) + 1, Len(old.doc))]
    ELSE Document(doc)

\* the except clause of _save_cache_index
persist_failed(s, t) == [s EXCEPT !.task[t].sv = "failed", !.task[t].fd = "none"]

\* aiofiles.open(temp_file, 'w') is through and json.dumps(self.cache_index) is taken
persist_open(s, t) ==
    [s EXCEPT !.temp_file = EmptyDoc,
              !.task[t].fd = "temp",
              !.task[t].doc = s.cache_index,
              !.task[t].sv = "write"]

\* f.write(...): into the inode the descriptor was opened on
persist_write(s, t) ==
    LET doc == s.task[t].doc
        u == IF s.task[t].fd = "temp"
             THEN [s EXCEPT !.temp_file = OverlayDoc(@, doc)]
             ELSE IF s.task[t].fd = "index"
             THEN [s EXCEPT !.index_file = OverlayDoc(@, doc)]
             ELSE s
    IN  [u EXCEPT !.task[t].sv = "close"]

\* the file is closed; temp_file.replace(self.cache_index_file)
persist_replace(s, t) ==
    IF s.temp_file.st = "none"
    THEN persist_failed(s, t)
    ELSE [s EXCEPT !.index_file = s.temp_file,
                   !.temp_file = NoDoc,
                   !.task = [u \in Tasks |->
                               IF u = t THEN [s.task[u] EXCEPT !.sv = "done", !.fd = "none"]
                               ELSE IF s.task[u].fd = "temp"
                               THEN [s.task[u] EXCEPT !.fd = "index"]
                               ELSE IF s.task[u].fd = "index"
                               THEN [s.task[u] EXCEPT !.fd = "orphan"]
                               ELSE s.task[u]]]

\* what is left of the persist of task t, run to its end
persist_rest(s, t) ==
    IF s.task[t].sv = "open" THEN persist_replace(persist_write(persist_open(s, t), t), t)
    ELSE IF s.task[t].sv = "write" THEN persist_replace(persist_write(s, t), t)
    ELSE IF s.task[t].sv = "close" THEN persist_replace(s, t)
    ELSE s

PersistOpen(t, ok) ==
    /\ task[t].pc \in SavePcs
    /\ task[t].sv = "open"
    /\ Becomes(IF ok THEN persist_open(Stepped(State, t), t)
               ELSE persist_failed(Stepped(State, t), t))

PersistWrite(t, ok) ==
    /\ task[t].pc \in SavePcs
    /\ task[t].sv = "write"
    /\ Becomes(IF ok THEN persist_write(Stepped(State, t), t)
               ELSE persist_failed(Stepped(State, t), t))

(***************************************************************************)
(* ResponseCache.store                                                     *)
(***************************************************************************)
\* the index entry store writes for its item
IndexEntry(tk) ==
    [key |-> tk.key, created |-> tk.t0, last_access |-> tk.t0,
     size_bytes |-> SizeEstimate(tk.m, tk.r), hits |-> 1]

\* store that leaves the memory table alone and relies on the per-key file
store_call_disk_only(s, t, m, p, r) ==
    LET k == GetCacheKey(m, p)
        c == Called(s, t, "store", [IdleTask EXCEPT !.m = m, !.p = p, !.r = r, !.key = k,
                                                     !.t0 = s.now + 1])
    IN  IF r = <<>> \/ p = <<>>
        THEN Return(c, t, None)
        ELSE [c EXCEPT !.task[t].pc = "s_open"]

\* store that goes on to cache whatever it is given, empty or not
store_call_unchecked(s, t, m, p, r) ==
    LET k == GetCacheKey(m, p)
        c == Called(s, t, "store", [IdleTask EXCEPT !.m = m, !.p = p, !.r = r, !.key = k,
                                                     !.t0 = s.now + 1])
    IN  [c EXCEPT !.memory_cache =
                      Put(s.memory_cache, [key |-> k, response |-> r,
                                           last_access |-> s.now + 1, hits |-> 0]),
                  !.task[t].pc = "s_open"]

\* store, from the call to the first await (aiofiles.open of the per-key file)
store_call(s, t, m, p, r) ==
    LET k == GetCacheKey(m, p)
        c == Called(s, t, "store", [IdleTask EXCEPT !.m = m, !.p = p, !.r = r, !.key = k,
                                                     !.t0 = s.now + 1])
    IN  IF r = <<>> \/ p = <<>>
        THEN Return(c, t, None)
        ELSE [c EXCEPT !.memory_cache =
                           Put(s.memory_cache, [key |-> k, response |-> r,
                                                last_access |-> s.now + 1, hits |-> 0]),
                       !.task[t].pc = "s_open"]

\* a store that lets the exception of the file operation reach its caller
store_failed_raising(s, t) == Return([s EXCEPT !.task[t].err = TRUE], t, Raised)

\* the except clause of store: log and return
store_failed(s, t) == Return([s EXCEPT !.task[t].err = TRUE], t, None)

\* aiofiles.open(cache_file, 'w'): creates the file or truncates it
store_open(s, t, ok) ==
    IF ok
    THEN [Stepped(s, t) EXCEPT !.files[s.task[t].key] = Truncated,
                               !.task[t].fh = TRUE,
                               !.task[t].pc = "s_write"]
    ELSE store_failed(Stepped(s, t), t)

\* the bytes go to offset 0 of the file as it is by then: what another writer of
\* the same file put beyond them stays, and the text no longer parses
Overlay(old, response) ==
    IF Len(old.response) > Len(response)
    THEN [st |-> "garbage",
          response |-> response \o SubSeq(old.response, Len(response) + 1, Len(old.response))]
    ELSE Written(response)

\* f.write(json.dumps(data)): the data goes to the inode that was opened
store_write(s, t, ok) ==
    IF ok
    THEN [Stepped(s, t) EXCEPT !.files[s.task[t].key] =
                                   IF s.task[t].fh THEN Overlay(@, s.task[t].r) ELSE @,
                               !.task[t].pc = "s_close"]
    ELSE store_failed(Stepped(s, t), t)

\* an update that adds the entry size to the total seen when store was called
store_update_index_stale(s, t) ==
    LET e == IndexEntry(s.task[t])
    IN  [s EXCEPT !.cache_index = Put(s.cache_index, e),
                  !.current_size_bytes = s.task[t].pre.size + e.size_bytes,
                  !.task[t].pc = "s_save"]

\* an update that lists the entry and leaves the total as it is
store_update_index_uncounted(s, t) ==
    [s EXCEPT !.cache_index = Put(s.cache_index, IndexEntry(s.task[t])),
              !.task[t].pc = "s_save"]

\* the body of `async with self.lock` in store, up to the await of the persist
store_update_index(s, t) ==
    LET e == IndexEntry(s.task[t])
    IN  [s EXCEPT !.cache_index = Put(s.cache_index, e),
                  !.current_size_bytes = s.current_size_bytes + e.size_bytes,
                  !.task[t].pc = "s_save"]

\* the file is closed; the lock is taken at once when it is free
store_close(s, t) ==
    IF Free(s)
    THEN store_update_index(Acquire(Stepped(s, t), t), t)
    ELSE [Acquire(Stepped(s, t), t) EXCEPT !.task[t].pc = "s_lock"]

\* the lock is handed to the waiting store
store_locked(s, t) == store_update_index(Stepped(s, t), t)

\* the persist is over (whether it failed or not): release, check the budget, return
store_saved(s, t) ==
    LET u == Release(persist_rest(Stepped(s, t), t))
        v == IF u.current_size_bytes > u.cfg.max_size_bytes
             THEN [u EXCEPT !.pending_cleanup = u.pending_cleanup + 1]
             ELSE u
    IN  Return(Count(v, "cache_stores"), t, None)

\* the suspension points of store
StorePcs == {"s_open", "s_write", "s_close", "s_lock", "s_save"}

\* the file operation or the persist the cancelled await was waiting for: it runs
\* in a worker thread, which the cancellation does not stop
store_cancelled_io(s, t, done) ==
    LET pc == s.task[t].pc
    IN  IF ~done THEN s
        ELSE IF pc = "s_open" THEN [s EXCEPT !.files[s.task[t].key] = Truncated]
        ELSE IF pc = "s_write" /\ s.task[t].fh
        THEN [s EXCEPT !.files[s.task[t].key] = Overlay(@, s.task[t].r)]
        ELSE IF pc = "s_save" /\ s.task[t].sv = "open" THEN persist_write(persist_open(s, t), t)
        ELSE IF pc = "s_save" /\ s.task[t].sv = "write" THEN persist_write(s, t)
        ELSE s

\* a cancellation that leaves `async with self.lock` without releasing the lock
store_cancelled_holding(s, t, done) ==
    LET u == [store_cancelled_io(s, t, done) EXCEPT !.task[t].cancelled_at = s.task[t].pc]
    IN  Return(u, t, Cancelled)

\* CancelledError is thrown into store at the await it is suspended in; it is no
\* Exception, so no except clause catches it; `async with` closes the file, takes
\* the waiter out of the queue of the lock or releases the lock
store_cancelled(s, t, done) ==
    LET u == [store_cancelled_io(s, t, done) EXCEPT
                 !.task[t].cancelled_at = s.task[t].pc,
                 !.lock = SelectSeq(s.lock, LAMBDA x : x # t)]
    IN  Return(u, t, Cancelled)

StoreCancel(t, done) ==
    /\ task[t].pc \in StorePcs
    /\ task[t].op = "store"
    /\ Becomes(store_cancelled(State, t, done))

StoreCall(t, m, p, r) ==
    /\ task[t].pc = "idle"
    /\ ncalls < cfg.max_calls
    /\ Becomes(store_call(State, t, m, p, r))

StoreOpen(t, ok) ==
    /\ task[t].pc = "s_open"
    /\ Becomes(store_open(State, t, ok))

StoreWrite(t, ok) ==
    /\ task[t].pc = "s_write"
    /\ Becomes(store_write(State, t, ok))

StoreClose(t) ==
    /\ task[t].pc = "s_close"
    /\ Becomes(store_close(State, t))

StoreLocked(t) ==
    /\ task[t].pc = "s_lock"
    /\ Holds(t)
    /\ Becomes(store_locked(State, t))

StoreSaved(t) ==
    /\ task[t].pc = "s_save"
    /\ Becomes(store_saved(State, t))

(***************************************************************************)
(* ResponseCache._cleanup_memory_cache                                     *)
(***************************************************************************)
\* the sort keys of the elements of d
LastAccessOf(d) == [i \in 1..Len(d) |-> d[i].last_access]
HitsOf(d) == [i \in 1..Len(d) |-> d[i].hits]

\* the order in which the memory table gives up its items
MemoryOrder(mem, policy) ==
    IF policy = "lru" THEN SortedBy(mem, LastAccessOf(mem)) ELSE SortedBy(mem, HitsOf(mem))

\* a shrink that drops the items highest in the order in place of the lowest
CleanupMemoryCacheNewest(mem, c) ==
    IF Len(mem) <= c.max_memory_items
    THEN mem
    ELSE LET items_to_remove == Len(mem) - c.max_memory_items
             sorted_items == MemoryOrder(mem, c.eviction_policy)
         IN  PopAll(mem, {sorted_items[Len(mem) + 1 - i].key : i \in 1..items_to_remove})

CleanupMemoryCache(mem, c) ==
    IF Len(mem) <= c.max_memory_items
    THEN mem
    ELSE LET items_to_remove == Len(mem) - c.max_memory_items
             sorted_items == MemoryOrder(mem, c.eviction_policy)
         IN  PopAll(mem, {sorted_items[i].key : i \in 1..items_to_remove})

(***************************************************************************)
(* ResponseCache.get                                                       *)
(***************************************************************************)
\* CacheItem.update_access
UpdateAccess(item, time) == [item EXCEPT !.last_access = time, !.hits = @ + 1]

\* a refresh of the index entry that forgets to count the hit
TouchIndexTimeOnly(index, k, time) ==
    IF Has(index, k)
    THEN Put(index, [Lookup(index, k) EXCEPT !.last_access = time])
    ELSE index

\* the index entry refreshed as the disk-hit path does
TouchIndex(index, k, time) ==
    IF Has(index, k)
    THEN Put(index, [Lookup(index, k) EXCEPT !.last_access = time, !.hits = @ + 1])
    ELSE index

\* an end of get that reports nothing found and counts nothing
get_miss_uncounted(s, t) == Return(s, t, None)

\* the end of get when nothing was found
get_miss(s, t) == Return(Count(s, "cache_misses"), t, None)

\* a get whose memory hit also refreshes the entry of the index
get_call_touching(s, t, m, p) ==
    LET k == GetCacheKey(m, p)
        c == Called(s, t, "get", [IdleTask EXCEPT !.m = m, !.p = p, !.key = k])
    IN  IF Has(c.memory_cache, k)
        THEN LET hit == UpdateAccess(Lookup(c.memory_cache, k), c.now)
             IN  Return(Count([c EXCEPT !.memory_cache = Put(c.memory_cache, hit),
                                        !.cache_index = TouchIndex(c.cache_index, k, c.now)],
                              "cache_hits"),
                        t, Some(hit.response))
        ELSE IF Has(c.cache_index, k) /\ c.files[k].st # "none"
        THEN [c EXCEPT !.task[t].pc = "g_read"]
        ELSE get_miss(c, t)

\* get, from the call to the first await (aiofiles.open of the per-key file)
get_call(s, t, m, p) ==
    LET k == GetCacheKey(m, p)
        c == Called(s, t, "get", [IdleTask EXCEPT !.m = m, !.p = p, !.key = k])
    IN  IF Has(c.memory_cache, k)
        THEN LET hit == UpdateAccess(Lookup(c.memory_cache, k), c.now)
             IN  Return(Count([c EXCEPT !.memory_cache = Put(c.memory_cache, hit)],
                              "cache_hits"),
                        t, Some(hit.response))
        ELSE IF Has(c.cache_index, k)
        THEN IF c.files[k].st # "none"
             THEN [c EXCEPT !.task[t].pc = "g_read"]
             ELSE get_miss(c, t)
        ELSE get_miss(c, t)

\* the entry a failed read leaves in the index once the lock is held
PruneEntry(index, k) == Pop(index, k)

\* self.cache_index.pop(key, None) under the lock, then the await of the persist
get_prune(s, t) ==
    [s EXCEPT !.cache_index = PruneEntry(s.cache_index, s.task[t].key),
              !.task[t].pc = "g_heal_save"]

\* the except clause of get: unlink the file, then prune the entry under the lock;
\* an unlink that raises ends the clause (except Exception: pass)
get_heal(s, t, unlink_ok) ==
    LET k == s.task[t].key
    IN  IF s.files[k].st # "none" /\ ~unlink_ok
        THEN get_miss(s, t)
        ELSE LET u == Unlink(s, k)
             IN  IF Free(u)
                 THEN get_prune(Acquire(u, t), t)
                 ELSE [Acquire(u, t) EXCEPT !.task[t].pc = "g_heal_lock"]

\* the lock is held and the file was read: refresh the entry, release, promote
get_promote(s, t) ==
    LET k == s.task[t].key
        index == TouchIndex(s.cache_index, k, s.now)
        item == [key |-> k, response |-> s.task[t].data, last_access |-> s.now,
                 hits |-> Lookup(index, k).hits]
        u == [Release(s) EXCEPT
                 !.cache_index = index,
                 !.memory_cache = CleanupMemoryCache(Put(s.memory_cache, item), s.cfg),
                 !.pending_save = s.pending_save + 1]
    IN  Return(Count(u, "cache_hits"), t, Some(s.task[t].data))

\* with the lock held: the key may have left the index since get looked (KeyError)
get_under_lock(s, t, unlink_ok) ==
    IF Has(s.cache_index, s.task[t].key)
    THEN get_promote(s, t)
    ELSE get_heal(Release(s), t, unlink_ok)

\* the file is opened, read and parsed; a file that cannot be is an exception
get_read(s, t, io_ok, unlink_ok) ==
    LET k == s.task[t].key
        f == s.files[k]
        u == [Stepped(s, t) EXCEPT !.task[t].data = f.response]
    IN  IF io_ok /\ f.st = "ok"
        THEN IF Free(u)
             THEN get_under_lock(Acquire(u, t), t, unlink_ok)
             ELSE [Acquire(u, t) EXCEPT !.task[t].pc = "g_lock"]
        ELSE get_heal(u, t, unlink_ok)

get_locked(s, t, unlink_ok) == get_under_lock(Stepped(s, t), t, unlink_ok)

get_heal_locked(s, t) == get_prune(Stepped(s, t), t)

\* the persist of the pruned index is over: release, count the miss, return
get_heal_saved(s, t) == get_miss(Release(persist_rest(Stepped(s, t), t)), t)

GetCall(t, m, p) ==
    /\ task[t].pc = "idle"
    /\ ncalls < cfg.max_calls
    /\ Becomes(get_call(State, t, m, p))

GetRead(t, io_ok, unlink_ok) ==
    /\ task[t].pc = "g_read"
    /\ Becomes(get_read(State, t, io_ok, unlink_ok))

GetLocked(t, unlink_ok) ==
    /\ task[t].pc = "g_lock"
    /\ Holds(t)
    /\ Becomes(get_locked(State, t, unlink_ok))

GetHealLocked(t) ==
    /\ task[t].pc = "g_heal_lock"
    /\ Holds(t)
    /\ Becomes(get_heal_locked(State, t))

GetHealSaved(t) ==
    /\ task[t].pc = "g_heal_save"
    /\ Becomes(get_heal_saved(State, t))

(***************************************************************************)
(* The persist get schedules after a disk hit with                         *)
(* asyncio.create_task(self._save_cache_index()): it takes no lock.        *)
(***************************************************************************)
save_task(s, t) ==
    [s EXCEPT !.task[t] = [IdleTask EXCEPT !.op = "save", !.bg = TRUE, !.pc = "p_save"],
              !.pending_save = s.pending_save - 1,
              !.dirty = TRUE]

save_done(s, t) == Return(persist_rest(Stepped(s, t), t), t, None)

SaveTask(t) ==
    /\ task[t].pc = "idle"
    /\ pending_save > 0
    /\ Becomes(save_task(State, t))

SaveDone(t) ==
    /\ task[t].pc = "p_save"
    /\ Becomes(save_done(State, t))

(***************************************************************************)
(* ResponseCache.get_stats: no await, so it runs in one piece.             *)
(***************************************************************************)
\* the share of the misses among the lookups, in place of that of the hits
MissRate(hits, misses) ==
    IF hits + misses > 0 THEN Quotient(misses, hits + misses) ELSE Quotient(0, 1)

\* stats["hits"] / total_lookups if total_lookups > 0 else 0
HitRate(hits, misses) ==
    IF hits + misses > 0 THEN Quotient(hits, hits + misses) ELSE Quotient(0, 1)

Stats(s) ==
    [disk_items |-> Len(s.cache_index),
     memory_items |-> Len(s.memory_cache),
     disk_size_bytes |-> SumSizes(s.cache_index),
     hits |-> s.counters.cache_hits,
     misses |-> s.counters.cache_misses,
     stores |-> s.counters.cache_stores,
     hit_rate |-> HitRate(s.counters.cache_hits, s.counters.cache_misses)]

get_stats_call(s, t) ==
    LET c == Called(s, t, "get_stats", IdleTask)
    IN  Return([c EXCEPT !.task[t].stats = Stats(c)], t, None)

GetStatsCall(t) ==
    /\ task[t].pc = "idle"
    /\ ncalls < cfg.max_calls
    /\ Becomes(get_stats_call(State, t))

(***************************************************************************)
(* ResponseCache.close: one last persist, outside the lock; whatever it    *)
(* raises is caught and logged.                                            *)
(***************************************************************************)
close_call(s, t) == [Called(s, t, "close", IdleTask) EXCEPT !.task[t].pc = "x_save"]

\* a close that lets the failure of its persist reach the caller
close_saved_raising(s, t) ==
    LET u == persist_rest(Stepped(s, t), t)
        failed == u.task[t].sv = "failed"
    IN  Return([u EXCEPT !.task[t].err = failed], t, IF failed THEN Raised ELSE None)

\* the persist has ended, well or not (err: it logged a failure); close returns
close_saved(s, t) ==
    LET u == persist_rest(Stepped(s, t), t)
    IN  Return([u EXCEPT !.task[t].err = (u.task[t].sv = "failed")], t, None)

CloseCall(t) ==
    /\ task[t].pc = "idle"
    /\ ncalls < cfg.max_calls
    /\ Becomes(close_call(State, t))

CloseSaved(t) ==
    /\ task[t].pc = "x_save"
    /\ Becomes(close_saved(State, t))

(***************************************************************************)
(* ResponseCache._check_and_cleanup                                        *)
(***************************************************************************)
\* int(self.max_size_bytes * 0.9)
TargetSize(c) == (c.max_size_bytes * 9) \div 10

LruSizeOf(d) == [i \in 1..Len(d) |-> d[i].last_access * d[i].size_bytes]

\* candidates left in the order of the dictionary
EvictionOrderUnsorted(index, policy) == index

\* cache_items.sort(...) by the eviction policy
EvictionOrder(index, policy) ==
    IF policy = "lru" THEN SortedBy(index, LastAccessOf(index))
    ELSE IF policy = "lfu" THEN SortedBy(index, HitsOf(index))
    ELSE SortedBy(index, LruSizeOf(index))

\* a loop that takes its break before the first candidate
EvictLoopStopsAtOnce(cands, bytes_to_remove, force, failing, fs, bytes_removed) ==
    [keys |-> {}, bytes |-> bytes_removed, failed |-> {}]

\* a loop that gives up at the first deletion that fails
RECURSIVE EvictLoopAborting(_, _, _, _, _, _)
EvictLoopAborting(cands, bytes_to_remove, force, failing, fs, bytes_removed) ==
    IF cands = <<>> \/ (bytes_removed >= bytes_to_remove /\ ~force)
    THEN [keys |-> {}, bytes |-> bytes_removed, failed |-> {}]
    ELSE LET c == Head(cands)
         IN  IF fs[c.key].st # "none" /\ c.key \in failing
             THEN [keys |-> {}, bytes |-> bytes_removed, failed |-> {c.key}]
             ELSE LET rest == EvictLoopAborting(Tail(cands), bytes_to_remove, force,
                                                failing, fs, bytes_removed + c.size_bytes)
                  IN  [rest EXCEPT !.keys = @ \cup {c.key}]

\* the loop over the candidates: the keys it removes, the bytes it counts and the
\* keys whose removal raised; `failing` are the keys whose file cannot be unlinked

RECURSIVE EvictLoop(_, _, _, _, _, _)
EvictLoop(cands, bytes_to_remove, force, failing, fs, bytes_removed) ==
    IF cands = <<>> \/ (bytes_removed >= bytes_to_remove /\ ~force)
    THEN [keys |-> {}, bytes |-> bytes_removed, failed |-> {}]
    ELSE LET c == Head(cands)
         IN  IF fs[c.key].st # "none" /\ c.key \in failing
             THEN LET rest == EvictLoop(Tail(cands), bytes_to_remove, force, failing, fs,
                                        bytes_removed)
                  IN  [rest EXCEPT !.failed = @ \cup {c.key}]
             ELSE LET rest == EvictLoop(Tail(cands), bytes_to_remove, force, failing, fs,
                                        bytes_removed + c.size_bytes)
                  IN  [rest EXCEPT !.keys = @ \cup {c.key}]

RECURSIVE UnlinkAll(_, _)
UnlinkAll(s, ks) ==
    IF ks = {} THEN s
    ELSE LET k == CHOOSE x \in ks : TRUE IN UnlinkAll(Unlink(s, k), ks \ {k})

\* the pass with the lock held, up to the await of the persist (or the early return)
cleanup_pass(s, t, failing) ==
    IF ~s.task[t].force /\ s.now - s.last_cleanup < s.cfg.cleanup_interval
    THEN Return(Release(s), t, None)
    ELSE LET mem == CleanupMemoryCache(s.memory_cache, s.cfg)
             size == SumSizes(s.cache_index)
             target_size == TargetSize(s.cfg)
             u == [s EXCEPT !.last_cleanup = s.now,
                            !.memory_cache = mem,
                            !.current_size_bytes = size]
         IN  IF size <= target_size /\ ~s.task[t].force
             THEN Return(Release(u), t, None)
             ELSE LET out == EvictLoop(EvictionOrder(s.cache_index, s.cfg.eviction_policy),
                                       size - target_size, s.task[t].force, failing,
                                       s.files, 0)
                      v == UnlinkAll(u, out.keys)
                  IN  [v EXCEPT !.memory_cache = PopAll(mem, out.keys),
                                !.cache_index = PopAll(s.cache_index, out.keys),
                                !.current_size_bytes = size - out.bytes,
                                !.task[t].removed = Cardinality(out.keys),
                                !.task[t].freed = out.bytes,
                                !.task[t].failed = out.failed,
                                !.task[t].pc = "k_save"]

\* async with self.lock: at once when the lock is free
cleanup_enter(s, t, failing) ==
    IF Free(s)
    THEN cleanup_pass(Acquire(s, t), t, failing)
    ELSE [Acquire(s, t) EXCEPT !.task[t].pc = "k_lock"]

\* _check_and_cleanup(force) awaited by a caller
cleanup_call(s, t, force, failing) ==
    cleanup_enter(Called(s, t, "cleanup", [IdleTask EXCEPT !.force = force]), t, failing)

\* the task store created with asyncio.create_task(self._check_and_cleanup())
cleanup_task(s, t, failing) ==
    cleanup_enter([s EXCEPT !.task[t] = [IdleTask EXCEPT !.op = "cleanup", !.bg = TRUE],
                            !.pending_cleanup = s.pending_cleanup - 1,
                            !.dirty = TRUE],
                  t, failing)

cleanup_locked(s, t, failing) == cleanup_pass(Stepped(s, t), t, failing)

cleanup_saved(s, t) == Return(Release(persist_rest(Stepped(s, t), t)), t, None)

CleanupCall(t, force, failing) ==
    /\ task[t].pc = "idle"
    /\ ncalls < cfg.max_calls
    /\ Becomes(cleanup_call(State, t, force, failing))

CleanupTask(t, failing) ==
    /\ task[t].pc = "idle"
    /\ pending_cleanup > 0
    /\ Becomes(cleanup_task(State, t, failing))

CleanupLocked(t, failing) ==
    /\ task[t].pc = "k_lock"
    /\ Holds(t)
    /\ Becomes(cleanup_locked(State, t, failing))

CleanupSaved(t) ==
    /\ task[t].pc = "k_save"
    /\ Becomes(cleanup_saved(State, t))

(***************************************************************************)
(* ResponseCache.clear                                                     *)
(***************************************************************************)
\* older_than_days * 86400: the clock of the model counts seconds
SecondsPerDay == 86400

\* the keys clear(older_than_days) is to remove, in index order
KeysToRemove(index, older, time) ==
    IF older = -1
    THEN index
    ELSE SelectSeq(index, LAMBDA e : e.created < time - older * SecondsPerDay)

\* the body of clear with the lock held, up to the await of the persist
clear_pass(s, t, failing) ==
    LET older == s.task[t].older
        doomed == KeysToRemove(s.cache_index, older, s.now)
        bytes_freed == IF older = -1 THEN s.current_size_bytes ELSE SumSizes(doomed)
        gone == {k \in KeysOf(doomed) : ~(s.files[k].st # "none" /\ k \in failing)}
        u == UnlinkAll(s, gone)
    IN  [u EXCEPT !.memory_cache = IF older = -1 THEN <<>> ELSE PopAll(s.memory_cache, gone),
                  !.cache_index = IF older = -1 THEN <<>> ELSE PopAll(s.cache_index, gone),
                  !.current_size_bytes = IF older = -1 THEN 0
                                         ELSE s.current_size_bytes - bytes_freed,
                  !.task[t].removed = Cardinality(gone),
                  !.task[t].freed = bytes_freed,
                  !.task[t].pc = "c_save"]

clear_call(s, t, older, failing) ==
    LET c == Called(s, t, "clear", [IdleTask EXCEPT !.older = older])
    IN  IF Free(c)
        THEN clear_pass(Acquire(c, t), t, failing)
        ELSE [Acquire(c, t) EXCEPT !.task[t].pc = "c_lock"]

clear_locked(s, t, failing) == clear_pass(Stepped(s, t), t, failing)

clear_saved(s, t) == Return(Release(persist_rest(Stepped(s, t), t)), t, None)

ClearCall(t, older, failing) ==
    /\ task[t].pc = "idle"
    /\ ncalls < cfg.max_calls
    /\ Becomes(clear_call(State, t, older, failing))

ClearLocked(t, failing) ==
    /\ task[t].pc = "c_lock"
    /\ Holds(t)
    /\ Becomes(clear_locked(State, t, failing))

ClearSaved(t) ==
    /\ task[t].pc = "c_save"
    /\ Becomes(clear_saved(State, t))

(***************************************************************************)
(* The environment: a per-key file damaged or removed behind the cache.    *)
(***************************************************************************)
TamperCorrupt(k) ==
    /\ ntamper < MaxTamper
    /\ files[k].st = "ok"
    /\ Becomes([State EXCEPT !.files[k] = Garbage, !.ntamper = ntamper + 1,
                             !.dirty = TRUE])

TamperDelete(k) ==
    /\ ntamper < MaxTamper
    /\ files[k].st # "none"
    /\ Becomes([Unlink(State, k) EXCEPT !.ntamper = ntamper + 1, !.dirty = TRUE])

(***************************************************************************)
(* Construction.  __init__ loads the index an earlier run left in the      *)
(* directory, recomputes the total from it and starts with an empty memory *)
(* table and a free lock.                                                  *)
(***************************************************************************)
Config(policy, items, calls, records) ==
    [eviction_policy |-> policy, max_size_bytes |-> MaxSizeBytes,
     max_memory_items |-> items, cleanup_interval |-> 2,
     max_calls |-> calls, hist_len |-> records, max_tasks |-> MaxTasks]

\* the index entry and the file an earlier run's store(m, p, R1) left
Earlier(m, p) ==
    [key |-> GetCacheKey(m, p), created |-> 0, last_access |-> 0,
     size_bytes |-> SizeEstimate(m, R1), hits |-> 1]

Directories ==
    {<<>>, <<Earlier(<<"a">>, <<"c">>)>>,
     <<Earlier(<<"a", "b">>, <<"c">>), Earlier(<<"a">>, <<"c">>)>>}

Constructed(c, index) ==
    /\ cfg = c
    /\ memory_cache = <<>>
    /\ cache_index = index
    /\ current_size_bytes = SumSizes(index)
    /\ last_cleanup = 1
    /\ lock = <<>>
    /\ files = [k \in Keys |-> IF Has(index, k) THEN Written(R1) ELSE NoFile]
    /\ counters = [cache_hits |-> 0, cache_misses |-> 0, cache_stores |-> 0]
    /\ now = 1
    /\ task = [t \in Tasks |-> IdleTask]
    /\ pending_cleanup = 0
    /\ pending_save = 0
    /\ index_file = IF index = <<>> THEN NoDoc ELSE Document(index)
    /\ temp_file = NoDoc
    /\ ncalls = 0
    /\ ntamper = 0
    /\ dirty = FALSE
    /\ hist = <<>>
    /\ registry = NewRegistry

\* a call or a new task takes the first free slot
FreeSlot(t) ==
    /\ t <= cfg.max_tasks
    /\ task[t].pc = "idle"
    /\ \A u \in Tasks : u < t => task[u].pc # "idle"

(***************************************************************************)
(* Spec: one caller that awaits each call before the next, the background  *)
(* tasks the calls create, failing disk operations and a directory that    *)
(* can be damaged from outside.                                            *)
(***************************************************************************)
A == <<"a">>
AB == <<"a", "b">>
C == <<"c">>
BC == <<"b", "c">>

Init == \E d \in Directories : Constructed(Config("lru", 1, MaxCalls, 2), d)

Pairs == {<<A, C>>, <<AB, C>>}

Failing == SUBSET {GetCacheKey(A, C)}

Next ==
    \/ \E t \in Tasks, mp \in Pairs, r \in {R1, R2} :
          Quiet /\ FreeSlot(t) /\ StoreCall(t, mp[1], mp[2], r)
    \/ \E t \in Tasks, ok \in BOOLEAN : StoreOpen(t, ok)
    \/ \E t \in Tasks, ok \in BOOLEAN : StoreWrite(t, ok)
    \/ \E t \in Tasks : StoreClose(t)
    \/ \E t \in Tasks : StoreLocked(t)
    \/ \E t \in Tasks : StoreSaved(t)
    \/ \E t \in Tasks, mp \in Pairs :
          Quiet /\ FreeSlot(t) /\ GetCall(t, mp[1], mp[2])
    \/ \E t \in Tasks, io_ok \in BOOLEAN, unlink_ok \in BOOLEAN :
          GetRead(t, io_ok, unlink_ok)
    \/ \E t \in Tasks, unlink_ok \in BOOLEAN : GetLocked(t, unlink_ok)
    \/ \E t \in Tasks : GetHealLocked(t)
    \/ \E t \in Tasks : GetHealSaved(t)
    \/ \E t \in Tasks, failing \in Failing : FreeSlot(t) /\ CleanupTask(t, failing)
    \/ \E t \in Tasks, failing \in Failing : CleanupLocked(t, failing)
    \/ \E t \in Tasks : CleanupSaved(t)
    \/ \E k \in Keys : Quiet /\ TamperCorrupt(k)
    \/ \E k \in Keys : Quiet /\ TamperDelete(k)
    \/ \E t \in Tasks : FreeSlot(t) /\ SaveTask(t)
    \/ \E t \in Tasks : SaveDone(t)

Spec == Init /\ [][Next]_vars

(***************************************************************************)
(* SpecFaults: the same caller, background tasks and failing disk          *)
(* operations, in a directory nobody else touches.                         *)
(***************************************************************************)
InitFaults == \E d \in Directories : Constructed(Config("lru", 1, MaxCalls, 2), d)

NextFaults ==
    \/ \E t \in Tasks, mp \in Pairs, r \in {R1, R2} :
          Quiet /\ FreeSlot(t) /\ StoreCall(t, mp[1], mp[2], r)
    \/ \E t \in Tasks, ok \in BOOLEAN : StoreOpen(t, ok)
    \/ \E t \in Tasks, ok \in BOOLEAN : StoreWrite(t, ok)
    \/ \E t \in Tasks : StoreClose(t)
    \/ \E t \in Tasks : StoreLocked(t)
    \/ \E t \in Tasks : StoreSaved(t)
    \/ \E t \in Tasks, mp \in Pairs :
          Quiet /\ FreeSlot(t) /\ GetCall(t, mp[1], mp[2])
    \/ \E t \in Tasks, io_ok \in BOOLEAN, unlink_ok \in BOOLEAN :
          GetRead(t, io_ok, unlink_ok)
    \/ \E t \in Tasks, unlink_ok \in BOOLEAN : GetLocked(t, unlink_ok)
    \/ \E t \in Tasks : GetHealLocked(t)
    \/ \E t \in Tasks : GetHealSaved(t)
    \/ \E t \in Tasks, failing \in Failing : FreeSlot(t) /\ CleanupTask(t, failing)
    \/ \E t \in Tasks, failing \in Failing : CleanupLocked(t, failing)
    \/ \E t \in Tasks : CleanupSaved(t)
    \/ \E t \in Tasks : FreeSlot(t) /\ SaveTask(t)
    \/ \E t \in Tasks : SaveDone(t)

SpecFaults == InitFaults /\ [][NextFaults]_vars

(***************************************************************************)
(* Properties of a single caller (Spec, SpecFaults).                       *)
(***************************************************************************)
\* record i of the history and the one after it are a call and the very next call,
\* with no step of any other task from the first call to the second return
Adjacent(i) ==
    /\ i \in 1..(Len(hist) - 1)
    /\ hist[i].solo
    /\ ~hist[i + 1].gap
    /\ hist[i + 1].solo

\* C1 (round trip): a store(m, p, r) with non-empty p and r that has returned,
\* followed by get(m, p) with nothing else in between, makes the get return r,
\* whether or not the file was written or the store went over the budget.
RoundTrip ==
    \A i \in 1..(Len(hist) - 1) :
        (/\ Adjacent(i)
         /\ hist[i].op = "store" /\ hist[i].p # <<>> /\ hist[i].r # <<>>
         /\ hist[i + 1].op = "get"
         /\ hist[i + 1].m = hist[i].m /\ hist[i + 1].p = hist[i].p)
        => hist[i + 1].ret = Some(hist[i].r)

\* a store that failed on disk and went unlisted, and the get after it that
\* returned the response all the same
RoundTripWitness ==
    \E i \in 1..(Len(hist) - 1) :
        /\ Adjacent(i)
        /\ hist[i].op = "store" /\ hist[i + 1].op = "get"
        /\ hist[i + 1].m = hist[i].m /\ hist[i + 1].p = hist[i].p
        /\ ~hist[i].post.in_index
        /\ hist[i + 1].ret = Some(hist[i].r)

\* a get that found its key in the index and not in memory, undisturbed
DiskLookup(g) == g.op = "get" /\ g.solo /\ g.pre.in_index /\ ~g.pre.in_memory

\* C6 (corruption self-heal): a get whose key is in the index, not in memory, and
\* whose file exists but cannot be parsed returns absent, counts a miss and no hit,
\* and leaves the key out of the index: disk_items is one lower than before.
CorruptionSelfHeal ==
    \A i \in 1..Len(hist) :
        (DiskLookup(hist[i]) /\ hist[i].pre.file.st \in {"empty", "garbage"})
        => /\ hist[i].ret = None
           /\ hist[i].post.misses = hist[i].pre.misses + 1
           /\ hist[i].post.hits = hist[i].pre.hits
           /\ ~hist[i].post.in_index
           /\ hist[i].post.disk_items = hist[i].pre.disk_items - 1

\* C7 (missing-file pruning): a get whose key is in the index, not in memory, and
\* whose file is not on disk returns absent, counts a miss and removes the key
\* from the index.
MissingFilePruned ==
    \A i \in 1..Len(hist) :
        (DiskLookup(hist[i]) /\ hist[i].pre.file.st = "none")
        => /\ hist[i].ret = None
           /\ hist[i].post.misses = hist[i].pre.misses + 1
           /\ ~hist[i].post.in_index

(***************************************************************************)
(* SpecSeq: one caller that awaits each call, no failing disk operation    *)
(* and nobody else in the directory; every operation of the cache, and     *)
(* pairs whose model and prompt concatenate to the same string.            *)
(***************************************************************************)
InitSeq == \E d \in Directories : Constructed(Config("lru", 1, MaxCalls + 1, 3), d)

PairsSeq == {<<A, C>>, <<AB, C>>, <<A, BC>>}

NextSeq ==
    \/ \E t \in Tasks, mp \in PairsSeq, r \in Responses :
          Quiet /\ FreeSlot(t) /\ StoreCall(t, mp[1], mp[2], r)
    \/ \E t \in Tasks : StoreOpen(t, TRUE)
    \/ \E t \in Tasks : StoreWrite(t, TRUE)
    \/ \E t \in Tasks : StoreClose(t)
    \/ \E t \in Tasks : StoreLocked(t)
    \/ \E t \in Tasks : StoreSaved(t)
    \/ \E t \in Tasks, mp \in PairsSeq :
          Quiet /\ FreeSlot(t) /\ GetCall(t, mp[1], mp[2])
    \/ \E t \in Tasks : GetRead(t, TRUE, TRUE)
    \/ \E t \in Tasks : GetLocked(t, TRUE)
    \/ \E t \in Tasks : GetHealLocked(t)
    \/ \E t \in Tasks : GetHealSaved(t)
    \/ \E t \in Tasks, force \in BOOLEAN :
          Quiet /\ FreeSlot(t) /\ CleanupCall(t, force, {})
    \/ \E t \in Tasks : FreeSlot(t) /\ CleanupTask(t, {})
    \/ \E t \in Tasks : CleanupLocked(t, {})
    \/ \E t \in Tasks : CleanupSaved(t)
    \/ \E t \in Tasks, older \in {-1, 0} :
          Quiet /\ FreeSlot(t) /\ ClearCall(t, older, {})
    \/ \E t \in Tasks : ClearLocked(t, {})
    \/ \E t \in Tasks : ClearSaved(t)
    \/ \E t \in Tasks : FreeSlot(t) /\ SaveTask(t)
    \/ \E t \in Tasks : SaveDone(t)

SpecSeq == InitSeq /\ [][NextSeq]_vars

\* C2 (idempotent overwrite): after store(m, p, r1) and then store(m, p, r2), one
\* after the other, get(m, p) returns r2, the second store added no index entry,
\* and the running total counts the entry of r2 in place of the entry it replaced.
IdempotentOverwrite ==
    \A i \in 1..(Len(hist) - 2) :
        (/\ Adjacent(i) /\ Adjacent(i + 1)
         /\ hist[i].op = "store" /\ hist[i].p # <<>> /\ hist[i].r # <<>>
         /\ hist[i + 1].op = "store" /\ hist[i + 1].r # <<>>
         /\ hist[i + 1].m = hist[i].m /\ hist[i + 1].p = hist[i].p
         /\ hist[i + 2].op = "get"
         /\ hist[i + 2].m = hist[i].m /\ hist[i + 2].p = hist[i].p)
        => /\ hist[i + 2].ret = Some(hist[i + 1].r)
           /\ hist[i + 1].post.in_index
           /\ hist[i + 1].post.disk_items = hist[i].post.disk_items
           /\ hist[i + 1].post.size =
                  hist[i + 1].pre.size - hist[i + 1].pre.had
                      + SizeEstimate(hist[i + 1].m, hist[i + 1].r)

\* every call of the run has returned and was a store, a cleanup pass or a clear
OnlyMutators ==
    /\ Quiescent
    /\ hist # <<>>
    /\ Len(hist) = ncalls
    /\ \A i \in 1..Len(hist) : hist[i].op \in {"store", "cleanup", "clear"}

\* C3 (size accounting): after any sequence of completed stores, cleanup passes and
\* clears, with nothing in flight, current_size_bytes is the sum of size_bytes over
\* the index.
SizeAccounting == OnlyMutators => current_size_bytes = SumSizes(cache_index)

\* C5 (key distinctness): calls for distinct (model, prompt) pairs use distinct
\* keys, and a get never returns what a store for a different pair put into a
\* cache that held nothing.
KeyDistinctness ==
    /\ \A i, j \in 1..Len(hist) :
          (hist[i].op \in {"store", "get"} /\ hist[j].op \in {"store", "get"}
           /\ <<hist[i].m, hist[i].p>> # <<hist[j].m, hist[j].p>>)
          => hist[i].key # hist[j].key
    /\ \A i \in 1..(Len(hist) - 1) :
          (/\ Adjacent(i)
           /\ hist[i].op = "store" /\ hist[i + 1].op = "get"
           /\ hist[i].pre.keys = {} /\ hist[i].pre.memory_keys = {}
           /\ <<hist[i].m, hist[i].p>> # <<hist[i + 1].m, hist[i + 1].p>>)
          => hist[i + 1].ret = None

(***************************************************************************)
(* SpecLru: one caller, an empty directory, room for three entries and a   *)
(* target that two entries meet; stores, gets and awaited cleanup passes.  *)
(***************************************************************************)
InitLru ==
    Constructed([Config("lru", 3, MaxCalls + 3, 5)
                    EXCEPT !.max_size_bytes = MaxSizeBytes + 44], <<>>)

PairsLru == {<<A, C>>, <<A, BC>>, <<AB, BC>>}

NextLru ==
    \/ \E t \in Tasks, mp \in PairsLru :
          Quiet /\ FreeSlot(t) /\ StoreCall(t, mp[1], mp[2], R1)
    \/ \E t \in Tasks : StoreOpen(t, TRUE)
    \/ \E t \in Tasks : StoreWrite(t, TRUE)
    \/ \E t \in Tasks : StoreClose(t)
    \/ \E t \in Tasks : StoreSaved(t)
    \/ \E t \in Tasks, mp \in PairsLru :
          Quiet /\ FreeSlot(t) /\ GetCall(t, mp[1], mp[2])
    \/ \E t \in Tasks, force \in BOOLEAN :
          Quiet /\ FreeSlot(t) /\ CleanupCall(t, force, {})
    \/ \E t \in Tasks : CleanupSaved(t)

SpecLru == InitLru /\ [][NextLru]_vars

\* records i .. i+4 of the history: three stores of distinct keys into an empty
\* cache, a get of the first that hits, and a cleanup pass that has to free no
\* more than the bytes of one entry
StoredABCThenReadA(i) ==
    /\ i + 4 <= Len(hist)
    /\ \A j \in i..(i + 3) : Adjacent(j)
    /\ \A j \in i..(i + 2) : hist[j].op = "store"
    /\ hist[i].pre.keys = {}
    /\ Cardinality({hist[i].key, hist[i + 1].key, hist[i + 2].key}) = 3
    /\ hist[i + 2].post.keys = {hist[i].key, hist[i + 1].key, hist[i + 2].key}
    /\ hist[i + 3].op = "get"
    /\ hist[i + 3].key = hist[i].key
    /\ hist[i + 3].ret = Some(hist[i].r)
    /\ hist[i + 4].op = "cleanup"
    /\ hist[i + 4].pre.size > TargetSize(cfg)
    /\ hist[i + 4].pre.size - TargetSize(cfg) <= SizeEstimate(A, R1)

\* C4 (LRU eviction order): with three entries stored in the order A, B, C and A
\* read back by get afterwards, a forced cleanup pass that has to free the bytes of
\* one entry removes B and keeps A and C.
LruEvictionOrder ==
    \A i \in 1..Len(hist) :
        (StoredABCThenReadA(i) /\ hist[i + 4].force)
        => hist[i + 4].post.keys = {hist[i].key, hist[i + 2].key}

\* the same for a pass that is not forced and runs because the interval has passed
LruEvictionOrderUnforced ==
    \A i \in 1..Len(hist) :
        (StoredABCThenReadA(i) /\ ~hist[i + 4].force)
        => hist[i + 4].post.keys = {hist[i].key, hist[i + 2].key}

(***************************************************************************)
(* SpecConc: callers that do not wait for one another, on one event loop,  *)
(* with a directory nobody else touches and disk operations that succeed.  *)
(***************************************************************************)
InitConc ==
    \E d \in {<<>>, <<Earlier(A, C)>>} :
        Constructed([Config("lru", 2, MaxCalls + 1, 3)
                        EXCEPT !.max_size_bytes = MaxSizeBytes + 24], d)

NextConc ==
    \/ \E t \in Tasks, mp \in Pairs, r \in {R1, R2} :
          FreeSlot(t) /\ StoreCall(t, mp[1], mp[2], r)
    \/ \E t \in Tasks : StoreOpen(t, TRUE)
    \/ \E t \in Tasks : StoreWrite(t, TRUE)
    \/ \E t \in Tasks : StoreClose(t)
    \/ \E t \in Tasks : StoreLocked(t)
    \/ \E t \in Tasks : StoreSaved(t)
    \/ \E t \in Tasks, mp \in Pairs : FreeSlot(t) /\ GetCall(t, mp[1], mp[2])
    \/ \E t \in Tasks : GetRead(t, TRUE, TRUE)
    \/ \E t \in Tasks : GetLocked(t, TRUE)
    \/ \E t \in Tasks : GetHealLocked(t)
    \/ \E t \in Tasks : GetHealSaved(t)
    \/ \E t \in Tasks, force \in BOOLEAN : FreeSlot(t) /\ CleanupCall(t, force, {})
    \/ \E t \in Tasks : FreeSlot(t) /\ CleanupTask(t, {})
    \/ \E t \in Tasks : CleanupLocked(t, {})
    \/ \E t \in Tasks : CleanupSaved(t)
    \/ \E t \in Tasks : FreeSlot(t) /\ ClearCall(t, -1, {})
    \/ \E t \in Tasks : ClearLocked(t, {})
    \/ \E t \in Tasks : ClearSaved(t)
    \/ \E t \in Tasks : FreeSlot(t) /\ SaveTask(t)
    \/ \E t \in Tasks : SaveDone(t)

SpecConc == InitConc /\ [][NextConc]_vars

StoreInFlight(k) ==
    \E t \in Tasks : task[t].pc # "idle" /\ task[t].op = "store" /\ task[t].key = k

\* C8 (index-to-file consistency): whenever no store of key k is in flight, k in
\* cache_index implies that the per-key file of k exists, in every interleaving of
\* store, get, clear and cleanup tasks.
IndexedFilesExist ==
    \A k \in Keys :
        (~StoreInFlight(k) /\ Has(cache_index, k)) => files[k].st # "none"

(***************************************************************************)
(* SpecStores: nothing but stores, by callers that do not wait for one     *)
(* another, into an empty directory with room for every key.               *)
(***************************************************************************)
InitStores ==
    Constructed([Config("lru", MaxTasks, MaxCalls, MaxCalls)
                    EXCEPT !.max_size_bytes = MaxSizeBytes + 44], <<>>)

NextStores ==
    \/ \E t \in Tasks, m \in Models, p \in {C, BC} :
          FreeSlot(t) /\ StoreCall(t, m, p, R1)
    \/ \E t \in Tasks : StoreOpen(t, TRUE)
    \/ \E t \in Tasks : StoreWrite(t, TRUE)
    \/ \E t \in Tasks : StoreClose(t)
    \/ \E t \in Tasks : StoreLocked(t)
    \/ \E t \in Tasks : StoreSaved(t)

SpecStores == InitStores /\ [][NextStores]_vars

RECURSIVE SumStored(_)
SumStored(h) ==
    IF h = <<>> THEN 0 ELSE SizeEstimate(Head(h).m, Head(h).r) + SumStored(Tail(h))

\* every call of the run was a store, all have returned, the keys are pairwise
\* distinct, the cache was empty at the first call and the entries fit the budget
DistinctStoresDone ==
    /\ Quiescent
    /\ hist # <<>>
    /\ Len(hist) = ncalls
    /\ \A i \in 1..Len(hist) :
          hist[i].op = "store" /\ hist[i].p # <<>> /\ hist[i].r # <<>>
    /\ \A i, j \in 1..Len(hist) : i # j => hist[i].key # hist[j].key
    /\ \E i \in 1..Len(hist) : hist[i].t0 = 2 /\ hist[i].pre.keys = {}
    /\ SumStored(hist) <= cfg.max_size_bytes

\* C9 (concurrent store safety): after n concurrent stores of n distinct keys that
\* fit the budget have all returned, cache_index holds exactly those n keys and
\* current_size_bytes is the sum of the n entry sizes.
ConcurrentStoreSafety ==
    DistinctStoresDone
    => /\ KeysOf(cache_index) = {hist[i].key : i \in 1..Len(hist)}
       /\ Len(cache_index) = Len(hist)
       /\ current_size_bytes = SumStored(hist)

\* two stores that ran at the same time, the first to return while the other was
\* between its file write and the lock
ConcurrentStoreSafetyWitness ==
    /\ DistinctStoresDone
    /\ Len(hist) = 2
    /\ ~hist[1].solo
    /\ hist[1].t0 > hist[2].t0
    /\ Len(cache_index) = 2
    /\ current_size_bytes = SumStored(hist)

\* C10 (same-key race): when two stores of one (model, prompt) with different
\* responses run concurrently and both return, the get that follows returns the
\* response of the store that took the lock last, and the per-key file and the
\* index entry are that store's too.
SameKeyLastLockWins ==
    \A i \in 1..(Len(hist) - 2) :
        (/\ hist[i].op = "store" /\ hist[i + 1].op = "store"
         /\ hist[i].p # <<>> /\ hist[i].r # <<>> /\ hist[i + 1].r # <<>>
         /\ hist[i + 1].m = hist[i].m /\ hist[i + 1].p = hist[i].p
         /\ hist[i + 1].r # hist[i].r
         /\ ~hist[i].solo
         /\ hist[i].pre.keys = {} /\ hist[i + 1].pre.keys = {}
         /\ hist[i + 2].op = "get"
         /\ hist[i + 2].m = hist[i].m /\ hist[i + 2].p = hist[i].p
         /\ ~hist[i + 2].gap /\ hist[i + 2].solo)
        => /\ hist[i + 2].ret = Some(hist[i + 1].r)
           /\ hist[i + 2].pre.file = Written(hist[i + 1].r)
           /\ hist[i + 2].pre.created = hist[i + 1].t0

(***************************************************************************)
(* SpecDisk: callers that do not wait for one another, a directory an      *)
(* earlier run left one entry in, and every persist of the index taken     *)
(* step by step, any of which can fail.                                    *)
(***************************************************************************)
InitDisk ==
    \E d \in {<<>>, <<Earlier(A, C)>>} :
        Constructed(Config("lru", 2, MaxCalls, MaxCalls), d)

NextDisk ==
    \/ \E t \in Tasks, mp \in Pairs : FreeSlot(t) /\ StoreCall(t, mp[1], mp[2], R1)
    \/ \E t \in Tasks : StoreOpen(t, TRUE)
    \/ \E t \in Tasks : StoreWrite(t, TRUE)
    \/ \E t \in Tasks : StoreClose(t)
    \/ \E t \in Tasks : StoreLocked(t)
    \/ \E t \in Tasks : StoreSaved(t)
    \/ \E t \in Tasks, mp \in Pairs : FreeSlot(t) /\ GetCall(t, mp[1], mp[2])
    \/ \E t \in Tasks : GetRead(t, TRUE, TRUE)
    \/ \E t \in Tasks : GetLocked(t, TRUE)
    \/ \E t \in Tasks : GetHealLocked(t)
    \/ \E t \in Tasks : GetHealSaved(t)
    \/ \E t \in Tasks : FreeSlot(t) /\ SaveTask(t)
    \/ \E t \in Tasks : SaveDone(t)
    \/ \E t \in Tasks : FreeSlot(t) /\ ClearCall(t, -1, {})
    \/ \E t \in Tasks : ClearLocked(t, {})
    \/ \E t \in Tasks : ClearSaved(t)
    \/ \E t \in Tasks : FreeSlot(t) /\ CloseCall(t)
    \/ \E t \in Tasks : CloseSaved(t)
    \/ \E t \in Tasks, ok \in BOOLEAN : PersistOpen(t, ok)
    \/ \E t \in Tasks, ok \in BOOLEAN : PersistWrite(t, ok)

SpecDisk == InitDisk /\ [][NextDisk]_vars

(***************************************************************************)
(* Properties of the files (SpecConc, SpecDisk).                           *)
(***************************************************************************)
\* the run so far is two stores of one key with different responses, made while
\* the other was in flight, into an empty cache, and both have returned
SameKeyStoresDone ==
    /\ Quiescent
    /\ ncalls = 2 /\ Len(hist) = 2
    /\ hist[1].op = "store" /\ hist[2].op = "store"
    /\ hist[1].key = hist[2].key
    /\ hist[1].r # <<>> /\ hist[2].r # <<>> /\ hist[1].p # <<>> /\ hist[2].p # <<>>
    /\ ~hist[1].solo
    /\ hist[1].pre.keys = {} /\ hist[2].pre.keys = {}

\* after two racing stores of one key the file is the record of one of them
FileOfOneStore ==
    SameKeyStoresDone
    => files[hist[1].key] \in {Written(hist[1].r), Written(hist[2].r)}

\* C11 (per-key file integrity): once two concurrent stores of one key have both
\* returned, the per-key file is the complete record of exactly one of them, and
\* at no time is a truncated or mixed file to be seen under the final name.
PerKeyFileIntegrity ==
    /\ FileOfOneStore
    /\ \A k \in Keys : files[k].st \in {"none", "ok"}

\* C12 (atomic index persistence): the index file, when it exists, is a complete
\* serialization of a value cache_index had; it is never a partially written or
\* mixed document, whichever persists interleave.
IndexFileWhole == index_file.st \in {"none", "ok"}

\* the tasks that are inside _save_cache_index
Persisting == {t \in Tasks : task[t].pc \in SavePcs}

\* C13 (lock discipline for persistence): a task that executes the persist of the
\* index holds the cache lock, so that at most one persist is in progress at any
\* time; the persist get schedules after a disk hit is no exception.
PersistUnderLock ==
    /\ \A t \in Persisting : Holds(t)
    /\ Cardinality(Persisting) <= 1

(***************************************************************************)
(* SpecEvict: one caller that stores and runs cleanup passes, the cleanup  *)
(* tasks its stores create, a budget that two entries exceed, and a        *)
(* directory that may hold entries of an earlier run; nothing fails.       *)
(***************************************************************************)
InitEvict ==
    \E d \in Directories : Constructed(Config("lru", 2, MaxCalls + 1, MaxCalls + 1), d)

NextEvict ==
    \/ \E t \in Tasks, mp \in Pairs :
          Quiet /\ FreeSlot(t) /\ StoreCall(t, mp[1], mp[2], R1)
    \/ \E t \in Tasks : StoreOpen(t, TRUE)
    \/ \E t \in Tasks : StoreWrite(t, TRUE)
    \/ \E t \in Tasks : StoreClose(t)
    \/ \E t \in Tasks : StoreLocked(t)
    \/ \E t \in Tasks : StoreSaved(t)
    \/ \E t \in Tasks, force \in BOOLEAN :
          Quiet /\ FreeSlot(t) /\ CleanupCall(t, force, {})
    \/ \E t \in Tasks : FreeSlot(t) /\ CleanupTask(t, {})
    \/ \E t \in Tasks : CleanupLocked(t, {})
    \/ \E t \in Tasks : CleanupSaved(t)

SpecEvict == InitEvict /\ [][NextEvict]_vars

\* the last call was a store that returned with the total over the budget, and
\* everything it set off has run to its end
OverBudgetStoreSettled ==
    /\ Quiescent
    /\ hist # <<>>
    /\ hist[Len(hist)].op = "store"
    /\ hist[Len(hist)].post.size > cfg.max_size_bytes

\* C14 (budget violation leads to cleanup): the cleanup a store schedules when it
\* leaves the total over max_size_bytes runs an eviction pass, whatever the time
\* since the last cleanup, and once it has run the total is at most 90% of the
\* budget.
OverBudgetCleaned == OverBudgetStoreSettled => current_size_bytes <= TargetSize(cfg)

\* C15 (size-bound convergence): a completed _check_and_cleanup(force=True) leaves
\* current_size_bytes at most 90% of max_size_bytes and equal to the sum of
\* size_bytes over the entries that remain in the index.
ForcedCleanupConverges ==
    \A i \in 1..Len(hist) :
        (hist[i].op = "cleanup" /\ hist[i].force)
        => /\ hist[i].post.size <= TargetSize(cfg)
           /\ hist[i].post.size = hist[i].post.index_sum

\* two stores whose entries together exceed the budget, then the forced pass,
\* which removed entries
ForcedCleanupConvergesWitness ==
    \E i \in 1..Len(hist) :
        /\ hist[i].op = "cleanup" /\ hist[i].force
        /\ hist[i].pre.index_sum > cfg.max_size_bytes
        /\ hist[i].pre.disk_items >= 2
        /\ hist[i].removed > 0
        /\ hist[i].post.size <= TargetSize(cfg)
        /\ i > 1 /\ hist[i - 1].op = "store"

(***************************************************************************)
(* SpecCalls: one caller that awaits each call, under a budget no store    *)
(* exceeds; stores with empty and non-empty arguments whose file           *)
(* operations can fail, gets of known and unknown pairs, and get_stats.    *)
(***************************************************************************)
InitCalls ==
    \E d \in Directories :
        Constructed([Config("lru", 2, MaxCalls + 1, MaxCalls + 1)
                        EXCEPT !.max_size_bytes = 4 * MaxSizeBytes], d)

StoresCalls == {<<A, C, R1>>, <<A, C, <<>>>>, <<A, <<>>, R1>>, <<AB, C, R2>>}

NextCalls ==
    \/ \E t \in Tasks, a \in StoresCalls :
          Quiet /\ FreeSlot(t) /\ StoreCall(t, a[1], a[2], a[3])
    \/ \E t \in Tasks, ok \in BOOLEAN : StoreOpen(t, ok)
    \/ \E t \in Tasks, ok \in BOOLEAN : StoreWrite(t, ok)
    \/ \E t \in Tasks : StoreClose(t)
    \/ \E t \in Tasks : StoreSaved(t)
    \/ \E t \in Tasks, mp \in PairsSeq :
          Quiet /\ FreeSlot(t) /\ GetCall(t, mp[1], mp[2])
    \/ \E t \in Tasks : GetRead(t, TRUE, TRUE)
    \/ \E t \in Tasks : FreeSlot(t) /\ SaveTask(t)
    \/ \E t \in Tasks : SaveDone(t)
    \/ \E t \in Tasks : Quiet /\ FreeSlot(t) /\ GetStatsCall(t)

SpecCalls == InitCalls /\ [][NextCalls]_vars

(***************************************************************************)
(* Properties of single calls (SpecCalls).                                 *)
(***************************************************************************)
\* the call left the index, the memory table and the size counter as they were
SameTables(h) ==
    /\ h.post.index = h.pre.index
    /\ h.post.memory = h.pre.memory
    /\ h.post.size = h.pre.size

\* C16 (empty-input no-op): a store with an empty prompt or an empty response
\* returns normally at once and changes nothing: the index, every per-key file,
\* the memory table, current_size_bytes and the store counter are as before.
EmptyInputNoOp ==
    \A i \in 1..Len(hist) :
        (hist[i].op = "store" /\ (hist[i].p = <<>> \/ hist[i].r = <<>>))
        => /\ hist[i].ret = None
           /\ ~hist[i].err
           /\ hist[i].awaits = 0
           /\ SameTables(hist[i])
           /\ hist[i].post.files = hist[i].pre.files
           /\ hist[i].post.stores = hist[i].pre.stores

\* both kinds of empty store have returned, one with an empty prompt and one with
\* an empty response
EmptyInputNoOpWitness ==
    /\ \E i \in 1..Len(hist) : hist[i].op = "store" /\ hist[i].p = <<>> /\ hist[i].r # <<>>
    /\ \E i \in 1..Len(hist) : hist[i].op = "store" /\ hist[i].p # <<>> /\ hist[i].r = <<>>

\* C17 (miss on unknown): a get whose key is in neither the memory table nor the
\* index returns absent, counts one miss and no hit, awaits nothing (no file
\* operation, no lock), and leaves the index, the memory table, the files and
\* current_size_bytes as they were.
MissOnUnknown ==
    \A i \in 1..Len(hist) :
        (hist[i].op = "get" /\ ~hist[i].pre.in_index /\ ~hist[i].pre.in_memory)
        => /\ hist[i].ret = None
           /\ hist[i].post.misses = hist[i].pre.misses + 1
           /\ hist[i].post.hits = hist[i].pre.hits
           /\ hist[i].awaits = 0
           /\ ~hist[i].locked
           /\ SameTables(hist[i])
           /\ hist[i].post.files = hist[i].pre.files

\* a get of an unknown pair has returned absent from a cache that holds other
\* pairs, in memory and in the index
MissOnUnknownWitness ==
    \E i \in 1..Len(hist) :
        /\ hist[i].op = "get" /\ ~hist[i].pre.in_index /\ ~hist[i].pre.in_memory
        /\ hist[i].pre.index # <<>> /\ hist[i].pre.memory # <<>>
        /\ hist[i].ret = None

\* C18 (store absorbs disk failures): a store whose open or write of the per-key
\* file failed returns normally; the index, current_size_bytes and the store
\* counter are as before the call, the memory table holds the response under
\* the key, and a get of the same pair right after it returns the response.
StoreAbsorbsDiskFailure ==
    \A i \in 1..Len(hist) :
        (hist[i].op = "store" /\ hist[i].err)
        => /\ hist[i].ret = None
           /\ hist[i].post.index = hist[i].pre.index
           /\ hist[i].post.size = hist[i].pre.size
           /\ hist[i].post.stores = hist[i].pre.stores
           /\ Has(hist[i].post.memory, hist[i].key)
           /\ Lookup(hist[i].post.memory, hist[i].key).response = hist[i].r
           /\ (/\ i < Len(hist)
               /\ Adjacent(i)
               /\ hist[i + 1].op = "get"
               /\ hist[i + 1].m = hist[i].m /\ hist[i + 1].p = hist[i].p)
              => hist[i + 1].ret = Some(hist[i].r)

\* the write failed after the open had truncated the file of a listed key, and
\* the get after it returned the response all the same
StoreAbsorbsDiskFailureWitness ==
    \E i \in 1..(Len(hist) - 1) :
        /\ hist[i].op = "store" /\ hist[i].err
        /\ hist[i].pre.in_index
        /\ hist[i].pre.file.st = "ok" /\ hist[i].post.file.st = "empty"
        /\ Adjacent(i)
        /\ hist[i + 1].op = "get" /\ hist[i + 1].key = hist[i].key
        /\ hist[i + 1].ret = Some(hist[i].r)

(***************************************************************************)
(* SpecClose: one caller that awaits each call; stores and closes, with    *)
(* persists taken step by step whose open and write can fail.              *)
(***************************************************************************)
InitClose ==
    \E d \in {<<>>, <<Earlier(A, C)>>} :
        Constructed(Config("lru", 2, MaxCalls, MaxCalls), d)

NextClose ==
    \/ \E t \in Tasks, mp \in Pairs :
          Quiet /\ FreeSlot(t) /\ StoreCall(t, mp[1], mp[2], R1)
    \/ \E t \in Tasks : StoreOpen(t, TRUE)
    \/ \E t \in Tasks : StoreWrite(t, TRUE)
    \/ \E t \in Tasks : StoreClose(t)
    \/ \E t \in Tasks : StoreSaved(t)
    \/ \E t \in Tasks : Quiet /\ FreeSlot(t) /\ CloseCall(t)
    \/ \E t \in Tasks : CloseSaved(t)
    \/ \E t \in Tasks, ok \in BOOLEAN : PersistOpen(t, ok)
    \/ \E t \in Tasks, ok \in BOOLEAN : PersistWrite(t, ok)

SpecClose == InitClose /\ [][NextClose]_vars

\* C19 (close is safe): every close returns normally, also when the open, the
\* write or the rename of its persist failed; a close whose persist failed
\* leaves the index, the memory table and current_size_bytes as they were.
CloseIsSafe ==
    \A i \in 1..Len(hist) :
        hist[i].op = "close"
        => /\ hist[i].ret = None
           /\ hist[i].err => SameTables(hist[i])

\* a close of a cache that holds entries has returned after its persist failed
CloseIsSafeWitness ==
    \E i \in 1..Len(hist) :
        /\ hist[i].op = "close" /\ hist[i].err
        /\ hist[i].pre.index # <<>> /\ hist[i].pre.memory # <<>>
        /\ hist[i].ret = None

\* C20 (hit rate): get_stats reports the hit and miss counters as they are and
\* hit_rate = hits / (hits + misses), or 0 when there was no lookup; one hit and
\* one miss give one half; get_stats changes neither counter.
HitRateOfCounters ==
    \A i \in 1..Len(hist) :
        hist[i].op = "get_stats"
        => LET st == hist[i].stats
               h == hist[i].pre.hits
               m == hist[i].pre.misses
           IN  /\ st.hits = h /\ st.misses = m
               /\ hist[i].post.hits = h /\ hist[i].post.misses = m
               /\ (h + m = 0) => st.hit_rate = Quotient(0, 1)
               /\ (h + m > 0) => /\ st.hit_rate[2] > 0
                                 /\ st.hit_rate[1] * (h + m) = h * st.hit_rate[2]
               /\ (h = 1 /\ m = 1) => st.hit_rate = <<1, 2>>

\* get_stats has answered after exactly one hit and one miss, with one half
HitRateOfCountersWitness ==
    \E i \in 1..Len(hist) :
        /\ hist[i].op = "get_stats"
        /\ hist[i].pre.hits = 1 /\ hist[i].pre.misses = 1
        /\ hist[i].stats.hit_rate = <<1, 2>>

\* get_stats has answered before any lookup, with 0
HitRateOfNoLookup ==
    \E i \in 1..Len(hist) :
        /\ hist[i].op = "get_stats"
        /\ hist[i].pre.hits + hist[i].pre.misses = 0
        /\ hist[i].stats.hit_rate = Quotient(0, 1)

(***************************************************************************)
(* Properties of clear and of the memory table (SpecSeq).                  *)
(***************************************************************************)
\* C21 (full clear): a clear() without argument that ran alone, with no failing
\* deletion, leaves the index and the memory table empty and current_size_bytes
\* at 0, and returns the number of entries the index held and the sum of their
\* size_bytes.
FullClear ==
    \A i \in 1..Len(hist) :
        (hist[i].op = "clear" /\ hist[i].older = -1 /\ hist[i].solo)
        => /\ hist[i].post.index = <<>>
           /\ hist[i].post.memory = <<>>
           /\ hist[i].post.size = 0
           /\ hist[i].removed = hist[i].pre.disk_items
           /\ hist[i].freed = hist[i].pre.index_sum

\* C22 (memory is a subset of the index): whenever nothing is in flight, every
\* key of the memory table is a key of the index.
MemorySubsetOfIndex ==
    Quiescent => KeysOf(memory_cache) \subseteq KeysOf(cache_index)

(***************************************************************************)
(* SpecRace: three callers at once on one key that an earlier run left in  *)
(* the directory; stores and gets, disk operations that succeed, a budget  *)
(* no store exceeds.                                                       *)
(***************************************************************************)
InitRace ==
    Constructed([Config("lru", 2, MaxCalls + 1, MaxCalls + 1)
                    EXCEPT !.max_size_bytes = 4 * MaxSizeBytes,
                           !.max_tasks = MaxTasks + 1],
                <<Earlier(A, C)>>)

NextRace ==
    \/ \E t \in Tasks, r \in {R1, R2} : FreeSlot(t) /\ StoreCall(t, A, C, r)
    \/ \E t \in Tasks : StoreOpen(t, TRUE)
    \/ \E t \in Tasks : StoreWrite(t, TRUE)
    \/ \E t \in Tasks : StoreClose(t)
    \/ \E t \in Tasks : StoreLocked(t)
    \/ \E t \in Tasks : StoreSaved(t)
    \/ \E t \in Tasks : FreeSlot(t) /\ GetCall(t, A, C)
    \/ \E t \in Tasks : GetRead(t, TRUE, TRUE)
    \/ \E t \in Tasks : GetLocked(t, TRUE)
    \/ \E t \in Tasks : GetHealLocked(t)
    \/ \E t \in Tasks : GetHealSaved(t)
    \/ \E t \in Tasks : FreeSlot(t) /\ SaveTask(t)
    \/ \E t \in Tasks : SaveDone(t)

SpecRace == InitRace /\ [][NextRace]_vars

(***************************************************************************)
(* SpecPromote: one caller that awaits each call, a memory table of one    *)
(* item under either policy, stores and gets whose disk operations         *)
(* succeed, a budget no store exceeds.                                     *)
(***************************************************************************)
\* an entry an earlier run stored and then read once from disk
Reread(m, p) == [Earlier(m, p) EXCEPT !.hits = 2]

DirectoriesTarget == Directories \cup {<<Reread(AB, C), Earlier(A, C)>>}

InitPromote ==
    \E d \in DirectoriesTarget, policy \in {"lru", "lfu"} :
        Constructed([Config(policy, 1, MaxCalls, MaxCalls)
                        EXCEPT !.max_size_bytes = 4 * MaxSizeBytes], d)

NextPromote ==
    \/ \E t \in Tasks, mp \in Pairs :
          Quiet /\ FreeSlot(t) /\ StoreCall(t, mp[1], mp[2], R2)
    \/ \E t \in Tasks : StoreOpen(t, TRUE)
    \/ \E t \in Tasks : StoreWrite(t, TRUE)
    \/ \E t \in Tasks : StoreClose(t)
    \/ \E t \in Tasks : StoreSaved(t)
    \/ \E t \in Tasks, mp \in Pairs :
          Quiet /\ FreeSlot(t) /\ GetCall(t, mp[1], mp[2])
    \/ \E t \in Tasks : GetRead(t, TRUE, TRUE)
    \/ \E t \in Tasks : FreeSlot(t) /\ SaveTask(t)
    \/ \E t \in Tasks : SaveDone(t)

SpecPromote == InitPromote /\ [][NextPromote]_vars

\* the get found its key in the index and not in memory, and the file was whole
DiskHit(h) ==
    /\ h.op = "get" /\ h.solo
    /\ h.pre.in_index /\ ~h.pre.in_memory
    /\ h.pre.file.st = "ok"

\* C23 (disk-hit promotion): a get that finds its key in the index only and
\* reads the file returns the response in the file; it counts one hit and no
\* miss, adds one to the hits of the index entry and moves its last_access
\* forward, changes nothing else in the index nor current_size_bytes, and puts
\* the item into a memory table that then holds at most max_memory_items items:
\* the item is in the table with the response of the file, unless the trim that
\* follows the insertion took it out at once, which it does under 'lfu' when
\* the table is full of items with more hits.
DiskHitPromotion ==
    \A i \in 1..Len(hist) :
        DiskHit(hist[i])
        => LET h == hist[i]
               old == Lookup(h.pre.index, h.key)
               new == Lookup(h.post.index, h.key)
           IN  /\ h.ret = Some(h.pre.file.response)
               /\ h.post.hits = h.pre.hits + 1
               /\ h.post.misses = h.pre.misses
               /\ h.post.in_index
               /\ new.hits = old.hits + 1
               /\ new.last_access > old.last_access
               /\ h.post.index = Put(h.pre.index, [old EXCEPT !.hits = new.hits,
                                                              !.last_access = new.last_access])
               /\ h.post.size = h.pre.size
               /\ \/ /\ h.post.in_memory
                     /\ Lookup(h.post.memory, h.key).response = h.pre.file.response
                  \/ /\ cfg.eviction_policy = "lfu"
                     /\ Len(h.post.memory) = cfg.max_memory_items
                     /\ \A j \in 1..Len(h.post.memory) : h.post.memory[j].hits > new.hits
               /\ Len(h.post.memory) <= cfg.max_memory_items

\* a disk hit whose promotion pushed another item out of the memory table
DiskHitPromotionWitness ==
    \E i \in 1..Len(hist) :
        /\ DiskHit(hist[i])
        /\ hist[i].pre.memory # <<>>
        /\ hist[i].post.memory_keys = {hist[i].key}
        /\ hist[i].ret = Some(R1)

(***************************************************************************)
(* SpecFast: callers that do not wait for one another, on one key and an   *)
(* empty directory: stores, gets, full clears and forced cleanups, with    *)
(* disk operations that succeed.                                           *)
(***************************************************************************)
InitFast ==
    Constructed([Config("lru", 2, MaxCalls, MaxCalls)
                    EXCEPT !.max_size_bytes = 4 * MaxSizeBytes], <<>>)

NextFast ==
    \/ \E t \in Tasks : FreeSlot(t) /\ StoreCall(t, A, C, R1)
    \/ \E t \in Tasks : StoreOpen(t, TRUE)
    \/ \E t \in Tasks : StoreWrite(t, TRUE)
    \/ \E t \in Tasks : StoreClose(t)
    \/ \E t \in Tasks : StoreLocked(t)
    \/ \E t \in Tasks : StoreSaved(t)
    \/ \E t \in Tasks : FreeSlot(t) /\ GetCall(t, A, C)
    \/ \E t \in Tasks : FreeSlot(t) /\ ClearCall(t, -1, {})
    \/ \E t \in Tasks : ClearLocked(t, {})
    \/ \E t \in Tasks : ClearSaved(t)
    \/ \E t \in Tasks : FreeSlot(t) /\ CleanupCall(t, TRUE, {})
    \/ \E t \in Tasks : CleanupLocked(t, {})
    \/ \E t \in Tasks : CleanupSaved(t)

SpecFast == InitFast /\ [][NextFast]_vars

\* C24 (memory-hit fast path): a get whose key is in the memory table returns
\* the item's response in one step, with no await and without the lock, whoever
\* holds the lock; it changes the item's last_access and hits and the hit
\* counter, and leaves the index, current_size_bytes, the files and the lock as
\* they were.
MemoryHitFastPath ==
    \A i \in 1..Len(hist) :
        (hist[i].op = "get" /\ hist[i].pre.in_memory)
        => LET h == hist[i]
               old == Lookup(h.pre.memory, h.key)
               new == Lookup(h.post.memory, h.key)
           IN  /\ h.ret = Some(old.response)
               /\ h.awaits = 0
               /\ ~h.locked
               /\ h.post.lock = h.pre.lock
               /\ h.post.hits = h.pre.hits + 1
               /\ h.post.misses = h.pre.misses
               /\ new.hits = old.hits + 1
               /\ new.last_access >= old.last_access
               /\ h.post.memory = Put(h.pre.memory, [old EXCEPT !.hits = new.hits,
                                                               !.last_access = new.last_access])
               /\ h.post.index = h.pre.index
               /\ h.post.size = h.pre.size
               /\ h.post.files = h.pre.files

\* a memory hit answered while another task held the lock, for a key the index
\* lists
MemoryHitFastPathWitness ==
    \E i \in 1..Len(hist) :
        /\ hist[i].op = "get" /\ hist[i].pre.in_memory /\ hist[i].pre.in_index
        /\ hist[i].pre.lock # <<>>
        /\ hist[i].ret = Some(R1)

(***************************************************************************)
(* SpecTarget: one caller that awaits each call, under either policy:      *)
(* stores, cleanup passes forced or not in which the file of one key may   *)
(* refuse to be deleted, and the cleanup tasks the stores create; the      *)
(* directory may hold entries of an earlier run, one of them read again    *)
(* in that run.                                                            *)
(***************************************************************************)
InitTarget ==
    \E d \in DirectoriesTarget, policy \in {"lru", "lfu"} :
        Constructed(Config(policy, 2, MaxCalls, MaxCalls), d)

StoresTarget == {<<A, C>>, <<AB, BC>>}

NextTarget ==
    \/ \E t \in Tasks, mp \in StoresTarget :
          Quiet /\ FreeSlot(t) /\ StoreCall(t, mp[1], mp[2], R1)
    \/ \E t \in Tasks : StoreOpen(t, TRUE)
    \/ \E t \in Tasks : StoreWrite(t, TRUE)
    \/ \E t \in Tasks : StoreClose(t)
    \/ \E t \in Tasks : StoreLocked(t)
    \/ \E t \in Tasks : StoreSaved(t)
    \/ \E t \in Tasks, force \in BOOLEAN, failing \in Failing :
          Quiet /\ FreeSlot(t) /\ CleanupCall(t, force, failing)
    \/ \E t \in Tasks : FreeSlot(t) /\ CleanupTask(t, {})
    \/ \E t \in Tasks : CleanupLocked(t, {})
    \/ \E t \in Tasks : CleanupSaved(t)

SpecTarget == InitTarget /\ [][NextTarget]_vars

\* a cleanup pass awaited by the caller that ran alone and passed the interval gate
PassRan(h) ==
    /\ h.op = "cleanup" /\ h.solo
    /\ h.force \/ (h.pre.now + 1) - h.pre.last_cleanup >= cfg.cleanup_interval

\* the rank the policy gives an index entry or a memory item
Rank(e) == IF cfg.eviction_policy = "lru" THEN e.last_access ELSE e.hits

CleanupLeastHitsFirst ==
    \E i \in 1..Len(hist) :
        /\ PassRan(hist[i]) /\ ~hist[i].force
        /\ cfg.eviction_policy = "lfu"
        /\ hist[i].removed = 1
        /\ Head(hist[i].pre.index).key \in hist[i].post.keys

(***************************************************************************)
(* SpecShrink: one caller that awaits each call, a memory table of one     *)
(* item under either policy, an empty directory and a budget no store      *)
(* exceeds: stores, gets and cleanup passes, forced or not.                *)
(***************************************************************************)
InitShrink ==
    \E policy \in {"lru", "lfu"} :
        Constructed([Config(policy, 1, MaxCalls + 2, MaxCalls + 2)
                        EXCEPT !.max_size_bytes = 4 * MaxSizeBytes], <<>>)

NextShrink ==
    \/ \E t \in Tasks, mp \in Pairs :
          Quiet /\ FreeSlot(t) /\ StoreCall(t, mp[1], mp[2], R1)
    \/ \E t \in Tasks : StoreOpen(t, TRUE)
    \/ \E t \in Tasks : StoreWrite(t, TRUE)
    \/ \E t \in Tasks : StoreClose(t)
    \/ \E t \in Tasks : StoreSaved(t)
    \/ \E t \in Tasks, mp \in Pairs :
          Quiet /\ FreeSlot(t) /\ GetCall(t, mp[1], mp[2])
    \/ \E t \in Tasks : GetRead(t, TRUE, TRUE)
    \/ \E t \in Tasks : FreeSlot(t) /\ SaveTask(t)
    \/ \E t \in Tasks : SaveDone(t)
    \/ \E t \in Tasks, force \in BOOLEAN :
          Quiet /\ FreeSlot(t) /\ CleanupCall(t, force, {})
    \/ \E t \in Tasks : CleanupSaved(t)

SpecShrink == InitShrink /\ [][NextShrink]_vars

\* C26 (memory-table shrink): a pass that is not gated brings the memory table
\* down to at most max_memory_items items by dropping exactly the surplus, chosen
\* lowest in the policy order; apart from the items of the index entries the pass
\* goes on to delete, nothing else leaves the table, and the shrink itself
\* removes no index entry, no file and no bytes from the total.
MemoryTableShrink ==
    \A i \in 1..Len(hist) :
        PassRan(hist[i])
        => LET h == hist[i]
               surplus == IF Len(h.pre.memory) > cfg.max_memory_items
                          THEN Len(h.pre.memory) - cfg.max_memory_items ELSE 0
               gone == h.pre.keys \ h.post.keys
           IN  /\ Len(h.post.memory) <= cfg.max_memory_items
               /\ \E dropped \in SUBSET h.pre.memory_keys :
                     /\ Cardinality(dropped) = surplus
                     /\ \A d \in dropped, k \in h.pre.memory_keys \ dropped :
                           Rank(Lookup(h.pre.memory, d)) <= Rank(Lookup(h.pre.memory, k))
                     /\ h.post.memory = PopAll(PopAll(h.pre.memory, dropped), gone)
               /\ h.post.index = PopAll(h.pre.index, gone)
               /\ h.removed = Cardinality(gone)
               /\ h.post.size = h.pre.index_sum - h.freed
               /\ \A k \in Keys \ gone : h.post.files[k] = h.pre.files[k]

\* a non-forced pass dropped one of two memory items, the one lower in the
\* order though it was the later in the table, and deleted nothing on disk
MemoryTableShrinkWitness ==
    \E i \in 1..Len(hist) :
        /\ PassRan(hist[i]) /\ ~hist[i].force
        /\ Len(hist[i].pre.memory) = 2
        /\ hist[i].post.memory = <<hist[i].pre.memory[1]>>
        /\ hist[i].post.index = hist[i].pre.index
        /\ hist[i].post.files = hist[i].pre.files

\* C27 (eviction is resilient to deletion failures): a pass in which the file of
\* a candidate could not be deleted returns normally; that candidate keeps its
\* index entry, its file and its memory item, and its bytes stay in the total
\* and out of the bytes removed; the pass went on to the other candidates, until
\* the bytes removed reached the excess or no other entry was left; and the
\* index was persisted once, as the pass left it.
EvictionSurvivesFailure ==
    \A i \in 1..Len(hist) :
        (PassRan(hist[i]) /\ hist[i].failed # {})
        => LET h == hist[i]
               gone == h.pre.keys \ h.post.keys
               excess == h.pre.index_sum - TargetSize(cfg)
           IN  /\ h.ret = None
               /\ \A k \in h.failed :
                     /\ k \in h.post.keys
                     /\ Lookup(h.post.index, k) = Lookup(h.pre.index, k)
                     /\ h.post.files[k] = h.pre.files[k]
                     /\ (Len(h.pre.memory) <= cfg.max_memory_items /\ k \in h.pre.memory_keys)
                        => /\ k \in h.post.memory_keys
                           /\ Lookup(h.post.memory, k) = Lookup(h.pre.memory, k)
               /\ h.post.index = PopAll(h.pre.index, gone)
               /\ h.freed = h.pre.index_sum - h.post.index_sum
               /\ h.post.size = h.post.index_sum
               /\ h.removed = Cardinality(gone)
               /\ IF h.force THEN h.post.keys = h.failed
                  ELSE h.freed >= excess \/ h.post.keys = h.failed
               /\ h.awaits = 1
               /\ h.post.index_file = Document(h.post.index)

\* the first candidate of a pass could not be deleted, was in memory, and the
\* pass deleted the candidate after it
EvictionSurvivesFailureWitness ==
    \E i \in 1..Len(hist) :
        /\ PassRan(hist[i]) /\ hist[i].failed # {}
        /\ hist[i].failed \subseteq hist[i].pre.memory_keys
        /\ hist[i].removed >= 1
        /\ \E k \in hist[i].failed, d \in hist[i].pre.keys \ hist[i].post.keys :
              Rank(Lookup(hist[i].pre.index, k)) < Rank(Lookup(hist[i].pre.index, d))

(***************************************************************************)
(* SpecCancel: nothing but stores of keys not stored before, by callers    *)
(* that do not wait for one another and that may cancel a store at any of  *)
(* its awaits; an empty directory with room for every key.                 *)
(***************************************************************************)
InitCancel ==
    Constructed([Config("lru", 2, MaxCalls, MaxCalls)
                    EXCEPT !.max_size_bytes = 4 * MaxSizeBytes], <<>>)

\* no store of the key has reached the index and none is in flight
FreshKey(k) ==
    /\ ~Has(cache_index, k)
    /\ \A u \in Tasks : task[u].pc # "idle" => task[u].key # k

NextCancel ==
    \/ \E t \in Tasks, mp \in Pairs :
          /\ FreeSlot(t)
          /\ FreshKey(GetCacheKey(mp[1], mp[2]))
          /\ StoreCall(t, mp[1], mp[2], R1)
    \/ \E t \in Tasks : StoreOpen(t, TRUE)
    \/ \E t \in Tasks : StoreWrite(t, TRUE)
    \/ \E t \in Tasks : StoreClose(t)
    \/ \E t \in Tasks : StoreLocked(t)
    \/ \E t \in Tasks : StoreSaved(t)
    \/ \E t \in Tasks, done \in BOOLEAN : StoreCancel(t, done)

SpecCancel == InitCancel /\ [][NextCancel]_vars

\* C28 (cancellation leaves the index consistent): with stores cancelled at any
\* of their awaits, only tasks still running hold or wait for the lock, the
\* running total equals the sum over the index in every state (each entry is in
\* the index together with its bytes in the total, or neither is there), and a
\* cancelled store has left its entry exactly if it was cancelled in the persist.
CancelConsistent ==
    /\ \A i \in 1..Len(lock) : task[lock[i]].pc # "idle"
    /\ Quiescent => lock = <<>>
    /\ current_size_bytes = SumSizes(cache_index)
    /\ \A i \in 1..Len(hist) :
          hist[i].cancelled_at # "none"
          => /\ hist[i].ret = Cancelled
             /\ hist[i].post.in_index <=> hist[i].cancelled_at = "s_save"
             /\ hist[i].post.size = hist[i].post.index_sum

\* one store was cancelled while it waited for the lock and another while it
\* held the lock in the persist
CancelConsistentWitness ==
    /\ \E i \in 1..Len(hist) : hist[i].cancelled_at = "s_lock"
    /\ \E i \in 1..Len(hist) : hist[i].cancelled_at = "s_save" /\ hist[i].post.in_index
    /\ lock = <<>>

(***************************************************************************)
(* SpecTotal: callers that do not wait for one another: stores, gets,      *)
(* clears of everything or of what is older than now, forced cleanups and  *)
(* the cleanup tasks of the stores; no deletion and no other disk          *)
(* operation fails.                                                        *)
(***************************************************************************)
InitTotal ==
    \E d \in {<<>>, <<Earlier(A, C)>>} :
        Constructed(Config("lru", 2, MaxCalls, MaxCalls), d)

NextTotal ==
    \/ \E t \in Tasks, mp \in Pairs : FreeSlot(t) /\ StoreCall(t, mp[1], mp[2], R1)
    \/ \E t \in Tasks : StoreOpen(t, TRUE)
    \/ \E t \in Tasks : StoreWrite(t, TRUE)
    \/ \E t \in Tasks : StoreClose(t)
    \/ \E t \in Tasks : StoreLocked(t)
    \/ \E t \in Tasks : StoreSaved(t)
    \/ \E t \in Tasks : FreeSlot(t) /\ GetCall(t, A, C)
    \/ \E t \in Tasks : GetRead(t, TRUE, TRUE)
    \/ \E t \in Tasks : GetLocked(t, TRUE)
    \/ \E t \in Tasks : GetHealLocked(t)
    \/ \E t \in Tasks : GetHealSaved(t)
    \/ \E t \in Tasks : FreeSlot(t) /\ SaveTask(t)
    \/ \E t \in Tasks : SaveDone(t)
    \/ \E t \in Tasks, older \in {-1, 0} : FreeSlot(t) /\ ClearCall(t, older, {})
    \/ \E t \in Tasks : ClearLocked(t, {})
    \/ \E t \in Tasks : ClearSaved(t)
    \/ \E t \in Tasks : FreeSlot(t) /\ CleanupCall(t, TRUE, {})
    \/ \E t \in Tasks : FreeSlot(t) /\ CleanupTask(t, {})
    \/ \E t \in Tasks : CleanupLocked(t, {})
    \/ \E t \in Tasks : CleanupSaved(t)

SpecTotal == InitTotal /\ [][NextTotal]_vars

\* C29 (the running total never under-counts): in every state current_size_bytes
\* is at least the sum of size_bytes over the index and at least 0, so that the
\* over-budget test of store is true whenever the indexed total exceeds the
\* budget.
TotalNeverUnderCounts ==
    /\ current_size_bytes >= SumSizes(cache_index)
    /\ current_size_bytes >= 0
    /\ SumSizes(cache_index) > cfg.max_size_bytes => current_size_bytes > cfg.max_size_bytes

\* a store has gone over an entry while another call was in flight, and the total
\* counts more than the index lists
TotalNeverUnderCountsWitness ==
    /\ cache_index # <<>>
    /\ current_size_bytes > SumSizes(cache_index)
    /\ \E i \in 1..Len(hist) : hist[i].op = "store" /\ ~hist[i].solo /\ hist[i].pre.in_index

(***************************************************************************)
(* ResourceRegistry: register, unregister, close_resource and close_all.   *)
(* Each handler is a function on the registry record; a coroutine is cut   *)
(* where it suspends: at `async with self._lock` when the lock is taken,   *)
(* and at the await of a close method that is a coroutine function.        *)
(***************************************************************************)
\* the registry and nothing else changes
RegistryBecomes(g) ==
    /\ registry' = g
    /\ UNCHANGED <<cfg, memory_cache, cache_index, current_size_bytes, last_cleanup,
                   lock, files, counters, now, task, pending_cleanup, pending_save,
                   index_file, temp_file, ncalls, ntamper, dirty, hist>>

\* the coroutine of task t returns ret to its caller
RegistryReturn(g, t, ret) ==
    [g EXCEPT !.calls[t] = IdleCall,
              !.log = Append(@, [id |-> g.calls[t].id, op |-> g.calls[t].op,
                                 name |-> g.calls[t].name, ret |-> ret,
                                 resources |-> g.resources, lock |-> g.lock])]

\* a call of task t begins
RegistryCalled(g, t, op, name, closer) ==
    [g EXCEPT !.ncalls = @ + 1,
              !.calls[t] = [IdleCall EXCEPT !.pc = "running", !.op = op,
                                            !.id = g.ncalls + 1, !.name = name,
                                            !.closer = closer]]

\* Lock.acquire of `async with self._lock` in the frame of coroutine `frame`:
\* taken at once when nobody holds or awaits the lock, otherwise the frame is
\* queued and the task suspends
RegistryAcquire(g, t, frame) ==
    [g EXCEPT !.lock = Append(@, [task |-> t, frame |-> frame]),
              !.calls[t].pc = IF g.lock = <<>> THEN "running" ELSE "lock_wait",
              !.calls[t].waiting = IF g.lock = <<>> THEN "none" ELSE frame]

\* Lock.release at the end of `async with self._lock`: the running frame is the
\* holder
RegistryRelease(g) == [g EXCEPT !.lock = Tail(@)]

NoResult == [ok |-> TRUE, total_count |-> 0, success_count |-> 0, errors |-> <<>>]

\* register, with the lock held
register_locked(g, t) ==
    RegistryReturn(
        RegistryRelease([g EXCEPT !.resources =
            Put(@, [key |-> g.calls[t].name, close_method |-> g.calls[t].closer])]),
        t, NoResult)

\* unregister, with the lock held
unregister_locked(g, t) ==
    RegistryReturn(
        RegistryRelease([g EXCEPT !.resources = Pop(@, g.calls[t].name)]),
        t, [NoResult EXCEPT !.ok = Has(g.resources, g.calls[t].name)])

\* the loop of close_all from `for name in resource_names` on: the next
\* close_resource is called, which awaits the lock in a frame of its own, or
\* the loop is over and close_all returns
close_all_loop(g, t) ==
    IF g.calls[t].names = <<>>
    THEN RegistryReturn(RegistryRelease(g), t,
             [ok |-> TRUE, total_count |-> g.calls[t].total_count,
              success_count |-> g.calls[t].success_count,
              errors |-> g.calls[t].errors])
    ELSE RegistryAcquire([g EXCEPT !.calls[t].name = Head(g.calls[t].names)],
                         t, "close_resource")

\* close_resource has returned (success, error), with its lock released, to the
\* coroutine that awaited it: the client, or the loop of close_all
close_resource_returns(g, t, success) ==
    IF g.calls[t].op = "close_resource"
    THEN RegistryReturn(g, t, [NoResult EXCEPT !.ok = success])
    ELSE close_all_loop(
             [g EXCEPT !.calls[t].names = Tail(@),
                       !.calls[t].success_count = IF success THEN @ + 1 ELSE @,
                       !.calls[t].errors =
                           IF success THEN @ ELSE Append(@, g.calls[t].name)], t)

\* close_resource, with the lock held, up to its return or to the await of a
\* close method that is a coroutine function
close_resource_locked(g, t) ==
    LET name == g.calls[t].name
        gone == RegistryRelease([g EXCEPT !.resources = Pop(@, name)])
        invoked == [gone EXCEPT !.closed[name] = @ + 1]
    IN  IF ~Has(g.resources, name)
        THEN close_resource_returns(RegistryRelease(g), t, FALSE)
        ELSE CASE Lookup(g.resources, name).close_method = "none" ->
                      close_resource_returns(gone, t, TRUE)
               [] Lookup(g.resources, name).close_method = "sync" ->
                      close_resource_returns(invoked, t, TRUE)
               [] Lookup(g.resources, name).close_method = "raises" ->
                      close_resource_returns(invoked, t, FALSE)
               [] Lookup(g.resources, name).close_method = "async" ->
                      [g EXCEPT !.closed[name] = @ + 1, !.calls[t].pc = "closing"]

\* the awaited close method has returned
close_resource_closed(g, t) ==
    close_resource_returns(
        RegistryRelease([g EXCEPT !.resources = Pop(@, g.calls[t].name),
                                  !.calls[t].pc = "running"]), t, TRUE)

\* close_all, with the lock held
close_all_locked(g, t) ==
    IF g.resources = <<>>
    THEN RegistryReturn(RegistryRelease(g), t, NoResult)
    ELSE close_all_loop(
             [g EXCEPT !.calls[t].total_count = Len(g.resources),
                       !.calls[t].names = [i \in 1..Len(g.resources) |->
                                               g.resources[i].key]], t)

\* the frame of task t holds the lock: the code inside `async with self._lock`
RegistryEntered(g, t, frame) ==
    CASE frame = "register" -> register_locked(g, t)
      [] frame = "unregister" -> unregister_locked(g, t)
      [] frame = "close_resource" -> close_resource_locked(g, t)
      [] frame = "close_all" -> close_all_locked(g, t)

\* a coroutine from its call to its first suspension or its return
RegistryEnter(g, t, frame) ==
    IF g.lock = <<>>
    THEN RegistryEntered(RegistryAcquire(g, t, frame), t, frame)
    ELSE RegistryAcquire(g, t, frame)

\* calls of the registry in one run
RegistryBound == MaxCalls + 1

RegistryIdle(t) ==
    /\ t <= MaxTasks
    /\ registry.calls[t].pc = "idle"
    /\ registry.ncalls < RegistryBound

Register(t, name, closer) ==
    /\ RegistryIdle(t)
    /\ RegistryBecomes(RegistryEnter(RegistryCalled(registry, t, "register", name, closer),
                                     t, "register"))

Unregister(t, name) ==
    /\ RegistryIdle(t)
    /\ RegistryBecomes(RegistryEnter(RegistryCalled(registry, t, "unregister", name, "none"),
                                     t, "unregister"))

CloseResource(t, name) ==
    /\ RegistryIdle(t)
    /\ RegistryBecomes(RegistryEnter(
           RegistryCalled(registry, t, "close_resource", name, "none"),
           t, "close_resource"))

CloseAll(t) ==
    /\ RegistryIdle(t)
    /\ RegistryBecomes(RegistryEnter(RegistryCalled(registry, t, "close_all", "", "none"),
                                     t, "close_all"))

\* the waiter at the head of the lock's queue is woken: its frame holds the lock
RegistryLocked(t) ==
    /\ registry.calls[t].pc = "lock_wait"
    /\ registry.lock # <<>>
    /\ Head(registry.lock) = [task |-> t, frame |-> registry.calls[t].waiting]
    /\ RegistryBecomes(RegistryEntered(
           [registry EXCEPT !.calls[t].pc = "running", !.calls[t].waiting = "none"],
           t, registry.calls[t].waiting))

\* the close method awaited by close_resource returns
RegistryClosed(t) ==
    /\ registry.calls[t].pc = "closing"
    /\ RegistryBecomes(close_resource_closed(registry, t))

(***************************************************************************)
(* SpecRegistry: the registry of a process whose cache is left alone;      *)
(* tasks that do not wait for one another register, unregister and close   *)
(* resources.  SpecRegistryFair adds what the event loop guarantees: a     *)
(* coroutine that can run is run.                                          *)
(***************************************************************************)
InitRegistry == Constructed(Config("lru", 1, MaxCalls, MaxCalls), <<>>)

NextRegistry ==
    \/ \E t \in Tasks, name \in Names, closer \in Closers : Register(t, name, closer)
    \/ \E t \in Tasks, name \in Names : Unregister(t, name)
    \/ \E t \in Tasks, name \in Names : CloseResource(t, name)
    \/ \E t \in Tasks : CloseAll(t)
    \/ \E t \in Tasks : RegistryLocked(t)
    \/ \E t \in Tasks : RegistryClosed(t)

SpecRegistry == InitRegistry /\ [][NextRegistry]_vars

SpecRegistryFair ==
    /\ SpecRegistry
    /\ \A t \in Tasks : WF_vars(RegistryLocked(t)) /\ WF_vars(RegistryClosed(t))

\* the call with this id is a close_all that found resources and has not returned
CloseAllPending(id) ==
    \E t \in Tasks :
        /\ registry.calls[t].id = id
        /\ registry.calls[t].op = "close_all"
        /\ registry.calls[t].total_count >= 1

\* the call with this id has returned (n, success_count, errors) with
\* success_count + len(errors) = n >= 1
CloseAllReturned(id) ==
    \E i \in 1..Len(registry.log) :
        /\ registry.log[i].id = id
        /\ registry.log[i].ret.total_count >= 1
        /\ registry.log[i].ret.success_count + Len(registry.log[i].ret.errors)
               = registry.log[i].ret.total_count

\* C30 (close_all terminates): a close_all that finds n >= 1 resources, all of
\* whose close methods terminate, eventually returns (n, success_count, errors)
\* with success_count + len(errors) = n; it does not wait forever for the lock it
\* holds itself.
CloseAllTerminates ==
    \A id \in 1..RegistryBound : CloseAllPending(id) ~> CloseAllReturned(id)

\* a close_all waits for the lock in close_resource while its own frame holds it
CloseAllWaitsForItself ==
    \E t \in Tasks :
        /\ registry.calls[t].op = "close_all"
        /\ registry.calls[t].pc = "lock_wait"
        /\ registry.calls[t].waiting = "close_resource"
        /\ Head(registry.lock) = [task |-> t, frame |-> "close_all"]

==========================================================================
